---- MODULE Spec2Model ----
(***************************************************************************)
(* A model of rapid-resolve: the Ticket / Interaction records              *)
(* (models/ticket.py, models/interaction.py), the request schemas          *)
(* (schemas/ticket.py, schemas/interaction.py) and the AI service          *)
(* (services/ai_service.py), the file services                             *)
(* (services/local_file_service.py, services/r2_file_service.py) and the   *)
(* database session (database.py).                                         *)
(*                                                                         *)
(* Python values are tagged records, so that a value of one type is never  *)
(* mistaken for a value of another: None, bool, float, int, str, dict,     *)
(* list.                                                                   *)
(* A float is carried in hundredths: 0.8 is PyFloat(80).                   *)
(*                                                                         *)
(* Eight specifications share the module, each over its own variables:     *)
(*   PropSpec    the computed properties of a Ticket, applied to every     *)
(*               ticket row the columns admit;                             *)
(*   AISpec      the public operations of AIService against every          *)
(*               response the backend can give;                            *)
(*   TicketSpec  a ticket row, its interaction rows and the requests the   *)
(*               schemas admit;                                            *)
(*   DbSpec      the five tables, rows added and deleted through a         *)
(*               Session;                                                  *)
(*   StorageSpec LocalFileService and R2FileService, given the same calls; *)
(*   LocalSpec   LocalFileService alone, failing at each of its writes;    *)
(*   SingletonSpec the get_*_service getters called from several threads;  *)
(*   SessionSpec get_db and the request that consumes its session.         *)
(***************************************************************************)
EXTENDS Integers, Sequences, FiniteSets, TLC

VARIABLES
    tk,            \* PropSpec: the Ticket row a property is read from
    prop,          \* PropSpec: the property last read ("" before any read)
    ret,           \* PropSpec: the value that read returned
    ai_op,         \* AISpec: the AIService operation last called
    ai_resp,       \* AISpec: what the backend did during that call
    ai_ret,        \* AISpec: the outcome of the call (a return or a raise)
    ai_context,    \* AISpec: the conversation turns the call put in its prompt
    whisper_model, \* AISpec: AIService.whisper_model is loaded (None until first use)
    ticket,        \* TicketSpec: the Ticket row (NoRow before creation)
    interactions,  \* TicketSpec: the Interaction rows, in insertion order
    pc,            \* TicketSpec: each submitter's position
    next_seq,      \* TicketSpec: the sequence_number each submitter computed
    update_req,    \* TicketSpec: the last TicketUpdate received and what came of it
    db,            \* DbSpec: the rows of the five tables, the ids given out, the last delete
    disk,          \* StorageSpec: the files and metadata files LocalFileService holds
    bucket,        \* StorageSpec: the objects of the bucket R2FileService holds
    st_op,         \* StorageSpec: the operation last called, on both services
    st_ret,        \* StorageSpec: its outcome on each service
    issued,        \* StorageSpec: each key an upload returned, with the bytes uploaded
    _instance,     \* SingletonSpec: the module-level instance of each service (0: None)
    constructed,   \* SingletonSpec: how many instances of each service were constructed
    returned,      \* SingletonSpec: the instances each get_..._service has returned
    call,          \* SingletonSpec: each thread's position in the getter it is calling
    request        \* SessionSpec: each request's position, its Session and its outcome

propVars == <<tk, prop, ret>>
aiVars == <<ai_op, ai_resp, ai_ret, ai_context, whisper_model>>
ticketVars == <<ticket, interactions, pc, next_seq, update_req>>
dbVars == <<db>>
stVars == <<disk, bucket, st_op, st_ret, issued>>
sgVars == <<_instance, constructed, returned, call>>
sessVars == <<request>>
vars == <<tk, prop, ret, ai_op, ai_resp, ai_ret, ai_context, whisper_model, ticket,
          interactions, pc, next_seq, update_req, db, disk, bucket, st_op, st_ret, issued,
          _instance, constructed, returned, call, request>>

----------------------------------------------------------------------------
(* Python values *)

PyNone == [t |-> "None"]
PyBool(b) == [t |-> "bool", b |-> b]
PyFloat(n) == [t |-> "float", n |-> n]
PyInt(i) == [t |-> "int", i |-> i]
PyStr(s) == [t |-> "str", s |-> s]
PyDict(d) == [t |-> "dict", d |-> d]
PyList(l) == [t |-> "list", l |-> l]

EmptyDict == PyDict([x \in {} |-> PyNone])

\* bool(v): the truth value Python's `and` / `or` / `if` test
truthy(v) ==
    CASE v.t = "None" -> FALSE
      [] v.t = "bool" -> v.b
      [] v.t = "float" -> v.n # 0
      [] v.t = "int" -> v.i # 0
      [] v.t = "str" -> v.s # ""
      [] v.t = "dict" -> DOMAIN v.d # {}
      [] v.t = "list" -> Len(v.l) > 0

\* a or b: the first operand when it is truthy, else the second
py_or(a, b) == IF truthy(a) THEN a ELSE b

----------------------------------------------------------------------------
(* models/ticket.py *)

TicketStatus == {"OPEN", "IN_PROGRESS", "WAITING_CUSTOMER", "ESCALATED", "RESOLVED", "CLOSED"}

TicketPriority == {"LOW", "MEDIUM", "HIGH", "URGENT"}

\* Column(Float), nullable: None or a float. The sample holds the values around
\* the 0.8 cut, zero, and values outside [0,1], which the column also stores.
ScoreSamples == {-50, 0, 50, 79, 80, 81, 90, 100, 150}

FloatColumn == {PyNone} \cup {PyFloat(n) : n \in ScoreSamples}

\* Column(String), nullable
EscalationReasons == {PyNone, PyStr("High urgency")}

\* Every row the columns of Ticket admit (the fields the properties read)
TicketRows ==
    [status : TicketStatus, priority : TicketPriority,
     avg_urgency_score : FloatColumn, escalation_reason : EscalationReasons]

NoRow == [status |-> "", priority |-> "", avg_urgency_score |-> PyNone,
          escalation_reason |-> PyNone]

is_open(self) == PyBool(self.status \in {"OPEN", "IN_PROGRESS", "WAITING_CUSTOMER"})

\* Mutant: ESCALATED counts as resolved too
is_resolved_with_escalated(self) ==
    PyBool(self.status \in {"RESOLVED", "CLOSED", "ESCALATED"})

is_resolved(self) == PyBool(self.status \in {"RESOLVED", "CLOSED"})

\* status == ESCALATED or priority == URGENT
\*     or (avg_urgency_score and avg_urgency_score > 0.8)
\* `x and y` is x when x is falsy (None, 0.0), and y otherwise
requires_action(self) ==
    py_or(py_or(PyBool(self.status = "ESCALATED"),
                PyBool(self.priority = "URGENT")),
          IF truthy(self.avg_urgency_score)
             THEN PyBool(self.avg_urgency_score.n > 80)
             ELSE self.avg_urgency_score)

----------------------------------------------------------------------------
(* PropSpec: a property of Ticket is read from a row *)

ReadRequiresAction ==
    /\ prop' = "requires_action"
    /\ ret' = requires_action(tk)
    /\ UNCHANGED <<tk, aiVars, ticketVars, dbVars, stVars, sgVars, sessVars>>

ReadIsOpen ==
    /\ prop' = "is_open"
    /\ ret' = is_open(tk)
    /\ UNCHANGED <<tk, aiVars, ticketVars, dbVars, stVars, sgVars, sessVars>>

ReadIsResolved ==
    /\ prop' = "is_resolved"
    /\ ret' = is_resolved(tk)
    /\ UNCHANGED <<tk, aiVars, ticketVars, dbVars, stVars, sgVars, sessVars>>

PropNext == ReadRequiresAction \/ ReadIsOpen \/ ReadIsResolved

----------------------------------------------------------------------------
(* services/ai_service.py: what a call can end in *)

Return(v) == [raised |-> FALSE, v |-> v]
Raise(e) == [raised |-> TRUE, e |-> e]

\* The exceptions the modelled code can raise; every one derives from Exception,
\* which is what the service's handlers catch.
Exceptions == {"APIError", "APITimeoutError", "TypeError", "JSONDecodeError",
               "AttributeError", "KeyError", "RuntimeError"}

\* obj.get(key, default): AttributeError unless obj is a dict
dict_get(obj, key, default) ==
    IF obj.t # "dict" THEN Raise("AttributeError")
    ELSE IF key \in DOMAIN obj.d THEN Return(obj.d[key]) ELSE Return(default)

\* obj[key]: KeyError when the key is missing
dict_item(obj, key) ==
    IF obj.t # "dict" THEN Raise("TypeError")
    ELSE IF key \in DOMAIN obj.d THEN Return(obj.d[key]) ELSE Raise("KeyError")

----------------------------------------------------------------------------
(* The backend: what openai_client.chat.completions.create and Whisper can do *)

Absent == [t |-> "absent"]

\* The JSON object a record of optional fields stands for: its Absent fields dropped
JsonObject(f) == PyDict([k \in {x \in DOMAIN f : f[x] # Absent} |-> f[k]])

\* JSON that parses but is no object: null, a number, a string, an array
JsonNonObjects == {PyNone, PyFloat(100), PyStr("ok"), PyList(<<>>)}

\* analyze_text: the fields the prompt asks for, each present or not, of the
\* documented type or not, urgency inside or outside [0,1]
TextIntents == {Absent, PyNone, PyStr("report_issue"),
                PyDict([type |-> PyStr("report_issue"), confidence |-> PyFloat(90)])}
TextEntities == {Absent, PyDict([error_codes |-> PyList(<<PyStr("E42")>>)])}
TextEmotions == {Absent, PyDict([sentiment |-> PyStr("frustrated")])}
TextUrgencies == {Absent, PyNone, PyStr("high")} \cup {PyFloat(n) : n \in {-50, 0, 50, 90, 100, 150}}

TextJson ==
    {JsonObject(f) : f \in [intent : TextIntents, entities : TextEntities,
                            emotion : TextEmotions, urgency_score : TextUrgencies]}
    \cup JsonNonObjects

\* generate_solution
SolutionContents == {Absent, PyStr("Update the display driver")}
SolutionSteps == {Absent, PyList(<<PyStr("Open Device Manager")>>)}
SolutionConfidences == {Absent, PyStr("high")} \cup {PyFloat(n) : n \in {-10, 0, 85, 100, 150}}
SolutionEscalations == {Absent, PyBool(FALSE), PyBool(TRUE)}

SolutionJson ==
    {JsonObject(f) : f \in [content : SolutionContents, steps : SolutionSteps,
                            confidence : SolutionConfidences,
                            requires_escalation : SolutionEscalations]}
    \cup JsonNonObjects

\* analyze_image
ImageContentTypes == {Absent, PyStr("screenshot")}
ImageRelevances == {Absent} \cup {PyFloat(n) : n \in {0, 70, 100, 150}}

ImageJson ==
    {JsonObject(f) : f \in [content_type : ImageContentTypes,
                            relevance_score : ImageRelevances]}
    \cup JsonNonObjects

\* A chat completion: the call raises (an API error, a timeout), or it returns a
\* message whose content is None, text that is no JSON, or JSON
ChatResponses(json) ==
    {[kind |-> "raise", e |-> e] : e \in {"APIError", "APITimeoutError"}}
    \cup {[kind |-> "content", c |-> "none"], [kind |-> "content", c |-> "garbled"]}
    \cup {[kind |-> "content", c |-> "json", v |-> v] : v \in json}

\* self.openai_client.chat.completions.create(...).choices[0].message.content
create(resp) ==
    IF resp.kind = "raise" THEN Raise(resp.e) ELSE Return(resp)

\* json.loads(content): TypeError for None, JSONDecodeError for text that is no JSON
json_loads(content) ==
    CASE content.c = "none" -> Raise("TypeError")
      [] content.c = "garbled" -> Raise("JSONDecodeError")
      [] content.c = "json" -> Return(content.v)

----------------------------------------------------------------------------
(* services/ai_service.py: AIService *)

\* The arguments a caller can pass where a dict is expected
ContextArgs == {PyNone, PyDict([context_summary |-> PyStr("Screen flickers")]),
                PyStr("Screen flickers")}

analyze_image_default(e) ==
    PyDict([content_type |-> PyStr("unknown"), detected_text |-> PyList(<<>>),
            visual_elements |-> PyList(<<>>), technical_details |-> EmptyDict,
            relevance_score |-> PyFloat(0), error |-> PyStr(e)])

\* The try block of analyze_image. image_is_bytes: base64.b64encode accepts the argument
analyze_image_try(image_is_bytes, resp) ==
    IF ~image_is_bytes THEN Raise("TypeError") ELSE
    LET c == create(resp) IN IF c.raised THEN c ELSE
    LET result == json_loads(c.v) IN IF result.raised THEN result ELSE
    LET logged == dict_get(result.v, "content_type", PyStr("unknown")) IN
    IF logged.raised THEN logged ELSE
    Return(result.v)

\* Mutant: the logging line reads the result after the try block, outside its handler
analyze_image_log_outside_try(image_is_bytes, resp) ==
    LET parsed == IF ~image_is_bytes THEN Raise("TypeError") ELSE
                  LET c == create(resp) IN IF c.raised THEN c ELSE json_loads(c.v)
        outcome == IF parsed.raised /\ parsed.e \in Exceptions
                      THEN Return(analyze_image_default(parsed.e))
                      ELSE parsed
        logged == dict_get(outcome.v, "content_type", PyStr("unknown")) IN
    IF outcome.raised THEN outcome ELSE IF logged.raised THEN logged ELSE outcome

analyze_image(image_is_bytes, resp) ==
    LET outcome == analyze_image_try(image_is_bytes, resp) IN
    IF outcome.raised /\ outcome.e \in Exceptions
        THEN Return(analyze_image_default(outcome.e))
        ELSE outcome

analyze_text_default(e) ==
    PyDict([intent |-> PyDict([type |-> PyStr("request_help"), confidence |-> PyFloat(50)]),
            entities |-> EmptyDict,
            emotion |-> PyDict([sentiment |-> PyStr("neutral"),
                                urgency_level |-> PyStr("medium")]),
            urgency_score |-> PyFloat(50),
            error |-> PyStr(e)])

\* Mutant: the logging line indexes result["intent"] instead of using .get
analyze_text_try_strict_log(conversation_context, resp) ==
    LET prompt == IF truthy(conversation_context)
                     THEN dict_get(conversation_context, "context_summary", PyStr("None"))
                     ELSE Return(PyNone) IN
    IF prompt.raised THEN prompt ELSE
    LET c == create(resp) IN IF c.raised THEN c ELSE
    LET result == json_loads(c.v) IN IF result.raised THEN result ELSE
    LET intent == dict_item(result.v, "intent") IN
    IF intent.raised THEN intent ELSE
    LET logged == dict_get(intent.v, "type", PyStr("unknown")) IN
    IF logged.raised THEN logged ELSE
    Return(result.v)

\* The try block of analyze_text
analyze_text_try(conversation_context, resp) ==
    LET prompt == IF truthy(conversation_context)
                     THEN dict_get(conversation_context, "context_summary", PyStr("None"))
                     ELSE Return(PyNone) IN
    IF prompt.raised THEN prompt ELSE
    LET c == create(resp) IN IF c.raised THEN c ELSE
    LET result == json_loads(c.v) IN IF result.raised THEN result ELSE
    LET intent == dict_get(result.v, "intent", EmptyDict) IN
    IF intent.raised THEN intent ELSE
    LET logged == dict_get(intent.v, "type", PyStr("unknown")) IN
    IF logged.raised THEN logged ELSE
    Return(result.v)

analyze_text(conversation_context, resp) ==
    LET outcome == analyze_text_try(conversation_context, resp) IN
    IF outcome.raised /\ outcome.e \in Exceptions
        THEN Return(analyze_text_default(outcome.e))
        ELSE outcome

\* analyze_text(text).get("intent", {"type": "request_help", "confidence": 0.5})
classify_intent(resp) ==
    LET analysis == analyze_text(PyNone, resp) IN
    IF analysis.raised THEN analysis ELSE
    dict_get(analysis.v, "intent",
             PyDict([type |-> PyStr("request_help"), confidence |-> PyFloat(50)]))

\* analyze_text(text).get("entities", {})
extract_entities(resp) ==
    LET analysis == analyze_text(PyNone, resp) IN
    IF analysis.raised THEN analysis ELSE
    dict_get(analysis.v, "entities", EmptyDict)

\* analyze_text(text, context).get("urgency_score", 0.5)
calculate_urgency(context, resp) ==
    LET analysis == analyze_text(context, resp) IN
    IF analysis.raised THEN analysis ELSE
    dict_get(analysis.v, "urgency_score", PyFloat(50))

generate_solution_default(e) ==
    PyDict([content |-> PyStr("I apologize, but I'm having difficulty generating a solution. Let me escalate this to a human agent."),
            steps |-> PyList(<<PyStr("Contact human support for assistance")>>),
            confidence |-> PyFloat(10),
            estimated_difficulty |-> PyStr("unknown"),
            requires_escalation |-> PyBool(TRUE),
            escalation_reason |-> PyStr("AI processing error"),
            prerequisites |-> PyList(<<>>),
            error |-> PyStr(e)])

\* A turn of ticket_context["conversation_flow"], as TicketWithContext carries it
ConversationTurn(n, message) ==
    PyDict([turn |-> PyInt(n),
            speaker |-> PyStr(IF n % 2 = 1 THEN "customer" ELSE "ai_agent"),
            message |-> message])

\* The messages of turns 1..25, each its own text, all shorter than 200
TurnMessages ==
    <<"m01", "m02", "m03", "m04", "m05", "m06", "m07", "m08", "m09", "m10",
      "m11", "m12", "m13", "m14", "m15", "m16", "m17", "m18", "m19", "m20",
      "m21", "m22", "m23", "m24", "m25">>

\* The stored conversation of a ticket with n turns, oldest first
conversation_flow(n) == [k \in 1..n |-> ConversationTurn(k, PyStr(TurnMessages[k]))]

\* conversations[-5:]: the last five elements, in their order
last5(l) == SubSeq(l, IF Len(l) > 5 THEN Len(l) - 4 ELSE 1, Len(l))

\* The lines of the formatted history, one <<speaker, message>> per turn of the
\* last five; conv.get needs a dict, message[:200] a str (the sample messages
\* are shorter than 200, so the slice keeps them whole). No line when the
\* conversation is empty or None ("No previous conversation").
_format_conversation_history(conversations) ==
    IF ~truthy(conversations) THEN Return(<<>>) ELSE
    LET window == last5(conversations.l) IN
    IF \E n \in 1..Len(window) : window[n].t # "dict" THEN Raise("AttributeError") ELSE
    LET speaker(n) == dict_get(window[n], "speaker", PyStr("unknown")).v
        message(n) == dict_get(window[n], "message", PyStr("")).v IN
    IF \E n \in 1..Len(window) : message(n).t # "str" THEN Raise("TypeError") ELSE
    Return([n \in 1..Len(window) |-> <<speaker(n).s, message(n).s>>])

\* Every attempt is formatted: attempt.get needs a dict, content[:100] a str
_format_previous_attempts(attempts) ==
    IF ~truthy(attempts) THEN Return(<<>>) ELSE
    IF \E n \in 1..Len(attempts.l) : attempts.l[n].t # "dict" THEN Raise("AttributeError") ELSE
    LET content(n) == dict_get(attempts.l[n], "content", PyStr("")).v IN
    IF \E n \in 1..Len(attempts.l) : content(n).t # "str" THEN Raise("TypeError") ELSE
    Return([n \in 1..Len(attempts.l) |-> content(n).s])

\* The user prompt of generate_solution, as far as the conversation goes: the
\* lines of history it holds, or the exception building it raised
generate_solution_prompt(ticket_context, previous_attempts) ==
    LET ticket_info == dict_get(ticket_context, "ticket_info", EmptyDict) IN
    IF ticket_info.raised THEN ticket_info ELSE
    LET conversations == dict_get(ticket_context, "conversation_flow", PyList(<<>>))
        title == dict_get(ticket_info.v, "title", PyStr("Unknown issue")) IN
    IF title.raised THEN title ELSE
    LET history == _format_conversation_history(conversations.v) IN
    IF history.raised THEN history ELSE
    LET attempts == _format_previous_attempts(previous_attempts) IN
    IF attempts.raised THEN attempts ELSE
    history

\* The try block of generate_solution
generate_solution_try(ticket_context, previous_attempts, resp) ==
    LET user_prompt == generate_solution_prompt(ticket_context, previous_attempts) IN
    IF user_prompt.raised THEN user_prompt ELSE
    LET c == create(resp) IN IF c.raised THEN c ELSE
    LET result == json_loads(c.v) IN IF result.raised THEN result ELSE
    LET logged == dict_get(result.v, "confidence", PyFloat(0)) IN
    IF logged.raised THEN logged ELSE
    Return(result.v)

\* Mutant: the handler catches json.JSONDecodeError alone
generate_solution_catches_json_only(ticket_context, previous_attempts, resp) ==
    LET outcome == generate_solution_try(ticket_context, previous_attempts, resp) IN
    IF outcome.raised /\ outcome.e = "JSONDecodeError"
        THEN Return(generate_solution_default(outcome.e))
        ELSE outcome

generate_solution(ticket_context, previous_attempts, resp) ==
    LET outcome == generate_solution_try(ticket_context, previous_attempts, resp) IN
    IF outcome.raised /\ outcome.e \in Exceptions
        THEN Return(generate_solution_default(outcome.e))
        ELSE outcome

\* The turns that reach the backend: the history of the prompt when the prompt
\* was built, none when building it raised before the call
generate_solution_context(ticket_context, previous_attempts) ==
    LET user_prompt == generate_solution_prompt(ticket_context, previous_attempts) IN
    IF user_prompt.raised THEN <<>> ELSE user_prompt.v

\* The arguments a caller can pass as ticket_context
TicketInfo == PyDict([title |-> PyStr("Laptop screen flickering")])

\* The numbers of stored turns a context is built for: around the window of
\* five the code keeps and the window of twenty the settings name
ConversationLengths == {0, 1, 5, 6, 20, 21, 25}

TicketContextArgs ==
    {PyDict([ticket_info |-> TicketInfo]),
     EmptyDict, PyDict([ticket_info |-> PyNone]), PyNone}
    \cup {PyDict([ticket_info |-> TicketInfo,
                  conversation_flow |-> PyList(conversation_flow(n))]) :
            n \in ConversationLengths}
    \cup {PyDict([ticket_info |-> TicketInfo,
                  conversation_flow |-> PyList(<<ConversationTurn(1, PyNone)>>)])}

PreviousAttemptsArgs ==
    {PyList(<<>>),
     PyList(<<PyDict([content |-> PyStr("Restart the laptop"), result |-> PyStr("failed")])>>),
     PyList(<<PyDict([content |-> PyNone])>>)}

\* The interactions a caller can pass to generate_context_summary: each has the
\* attributes of an Interaction row; processed_content is None until processing
InteractionArg(content) == [interaction_type |-> "followup", processed_content |-> content]

\* Lists of 0, 1, 2, 5 and 6 interactions, in sequence_number order
InteractionArgs ==
    {<<>>, <<InteractionArg(PyStr("Screen still flickers"))>>,
     <<InteractionArg(PyStr("Screen still flickers")), InteractionArg(PyNone)>>}
    \cup {[n \in 1..len |-> InteractionArg(PyStr(TurnMessages[n]))] : len \in {5, 6}}

\* getattr(i, 'processed_content', ...)[:100] for i in interactions[:5]:
\* TypeError when a processed_content is None
interaction_texts(interaction_list) ==
    LET first5 == SubSeq(interaction_list, 1, IF Len(interaction_list) < 5 THEN Len(interaction_list) ELSE 5) IN
    IF \E n \in 1..Len(first5) : first5[n].processed_content.t # "str"
        THEN Raise("TypeError")
        ELSE Return(PyList([n \in 1..Len(first5) |-> first5[n].processed_content]))

\* The text a completion can carry, and str.strip() of each
SummaryTexts == {"Customer reports a flickering screen.",
                 " Customer reports a flickering screen. ", ""}

str_strip(s) ==
    IF s = " Customer reports a flickering screen. "
        THEN "Customer reports a flickering screen." ELSE s

SummaryResponses ==
    {[kind |-> "raise", e |-> e] : e \in {"APIError", "APITimeoutError"}}
    \cup {[kind |-> "content", c |-> "none"]}
    \cup {[kind |-> "content", c |-> "text", s |-> s] : s \in SummaryTexts}

TicketTitles == {"Laptop screen flickering", "Printer offline"}

generate_context_summary_default(ticket_title) ==
    PyStr("Customer support case: " \o ticket_title)

\* The try block of generate_context_summary
generate_context_summary_try(interaction_list, resp) ==
    LET texts == interaction_texts(interaction_list) IN
    IF texts.raised THEN texts ELSE
    LET c == create(resp) IN IF c.raised THEN c ELSE
    IF c.v.c = "none" THEN Raise("AttributeError") ELSE
    Return(PyStr(str_strip(c.v.s)))

\* Mutant: the fallback is the same text for every ticket
generate_context_summary_fixed_fallback(ticket_title, interaction_list, resp) ==
    LET outcome == generate_context_summary_try(interaction_list, resp) IN
    IF outcome.raised /\ outcome.e \in Exceptions
        THEN Return(PyStr("Customer support case: Laptop screen flickering"))
        ELSE outcome

generate_context_summary(ticket_title, interaction_list, resp) ==
    LET outcome == generate_context_summary_try(interaction_list, resp) IN
    IF outcome.raised /\ outcome.e \in Exceptions
        THEN Return(generate_context_summary_default(ticket_title))
        ELSE outcome

\* Whisper: load_model or transcribe raises, or transcribe returns a dict
\* The sample texts are lower-case already, so text.lower() leaves them as they are
TranscriptTexts == {"my screen is broken", "thanks it works", "it is not working", ""}

\* str.split() of each sample text
str_split(s) ==
    CASE s = "my screen is broken" -> <<"my", "screen", "is", "broken">>
      [] s = "thanks it works" -> <<"thanks", "it", "works">>
      [] s = "it is not working" -> <<"it", "is", "not", "working">>
      [] OTHER -> <<>>

WhisperResults ==
    {[kind |-> "raise", e |-> "RuntimeError"]}
    \cup {[kind |-> "result", v |-> PyDict([text |-> PyStr(s)])] : s \in TranscriptTexts}
    \cup {[kind |-> "result", v |-> PyDict([text |-> PyStr(s), language |-> PyStr("sv")])] :
            s \in TranscriptTexts}
    \cup {[kind |-> "result", v |-> EmptyDict], [kind |-> "result", v |-> PyDict([text |-> PyNone])]}

\* load_raises: whisper.load_model raises when it is called
WhisperResponses == [load_raises : BOOLEAN, transcribe : WhisperResults]

Languages == {"en", "sv"}

stop_words == {"the", "a", "an", "and", "or", "but", "in", "on", "at", "to", "for", "of",
               "with", "is", "was", "are", "been", "be", "have", "has", "had", "do",
               "does", "did", "will", "would", "could", "should"}

\* The words of text that are no stop word and longer than 3, each once, the first 5
_extract_key_phrases(text) ==
    LET words == str_split(text)
        keep(n) == words[n] \notin stop_words /\ Len(words[n]) > 3
                   /\ \A m \in 1..(n - 1) : words[m] # words[n]
        idx == {n \in 1..Len(words) : keep(n)}
        rank(n) == Cardinality({m \in idx : m <= n})
    IN [r \in 1..(IF Cardinality(idx) < 5 THEN Cardinality(idx) ELSE 5) |->
            words[CHOOSE n \in idx : rank(n) = r]]

negative_words == <<<<"frustrated">>, <<"angry">>, <<"upset">>, <<"disappointed">>,
                    <<"broken">>, <<"not", "working">>, <<"failed">>, <<"error">>,
                    <<"problem">>, <<"issue">>>>

positive_words == <<<<"thanks">>, <<"thank", "you">>, <<"great">>, <<"works">>,
                    <<"working">>, <<"fixed">>, <<"solved">>, <<"perfect">>,
                    <<"excellent">>>>

\* word in text_lower, for a text of whole words
_occurs(word, text) ==
    LET words == str_split(text) IN
    \E n \in 1..Len(words) :
        /\ n + Len(word) - 1 <= Len(words)
        /\ \A k \in 1..Len(word) : words[n + k - 1] = word[k]

_analyze_sentiment(text) ==
    LET negative_count == Cardinality({n \in 1..Len(negative_words) : _occurs(negative_words[n], text)})
        positive_count == Cardinality({n \in 1..Len(positive_words) : _occurs(positive_words[n], text)})
    IN IF negative_count > positive_count THEN "frustrated"
       ELSE IF positive_count > negative_count THEN "satisfied"
       ELSE "neutral"

transcribe_audio_default(language, e) ==
    PyDict([transcription |-> PyStr(""), language |-> PyStr(language),
            duration_seconds |-> PyFloat(0), word_count |-> PyInt(0),
            confidence |-> PyFloat(0), key_phrases |-> PyList(<<>>),
            sentiment |-> PyStr("unknown"), error |-> PyStr(e)])

\* _load_whisper_model: loads the model on first use and keeps it
_load_whisper_model(loaded, resp) ==
    IF loaded THEN Return(TRUE)
    ELSE IF resp.load_raises THEN Raise("RuntimeError") ELSE Return(TRUE)

\* self.whisper_model after the call
whisper_model_after(loaded, resp) == loaded \/ ~resp.load_raises

\* The try block of transcribe_audio
transcribe_audio_try(loaded, language, resp) ==
    LET model == _load_whisper_model(loaded, resp) IN IF model.raised THEN model ELSE
    IF resp.transcribe.kind = "raise" THEN Raise(resp.transcribe.e) ELSE
    LET result == resp.transcribe.v
        text == dict_item(result, "text") IN IF text.raised THEN text ELSE
    IF text.v.t # "str" THEN Raise("AttributeError") ELSE
    LET transcription == str_strip(text.v.s)
        lang == dict_get(result, "language", PyStr(language)) IN
    Return(PyDict([transcription |-> PyStr(transcription), language |-> lang.v,
                   duration_seconds |-> PyFloat(0),
                   word_count |-> PyInt(Len(str_split(transcription))),
                   confidence |-> PyFloat(90),
                   key_phrases |-> PyList(_extract_key_phrases(transcription)),
                   sentiment |-> PyStr(_analyze_sentiment(transcription))]))

\* Mutant: the model is loaded before the try block, outside its handler
transcribe_audio_load_outside_try(loaded, language, resp) ==
    LET model == _load_whisper_model(loaded, resp)
        outcome == transcribe_audio_try(loaded, language, resp) IN
    IF model.raised THEN model
    ELSE IF outcome.raised /\ outcome.e \in Exceptions
        THEN Return(transcribe_audio_default(language, outcome.e))
        ELSE outcome

transcribe_audio(loaded, language, resp) ==
    LET outcome == transcribe_audio_try(loaded, language, resp) IN
    IF outcome.raised /\ outcome.e \in Exceptions
        THEN Return(transcribe_audio_default(language, outcome.e))
        ELSE outcome

----------------------------------------------------------------------------
(* AISpec: a caller calls one public operation of AIService *)

Call_analyze_image ==
    /\ ai_op = ""
    /\ \E image_is_bytes \in BOOLEAN, resp \in ChatResponses(ImageJson) :
        /\ ai_op' = "analyze_image"
        /\ ai_resp' = [args |-> <<image_is_bytes>>, backend |-> resp]
        /\ ai_ret' = analyze_image(image_is_bytes, resp)
        /\ ai_context' = <<>>
    /\ UNCHANGED <<whisper_model, propVars, ticketVars, dbVars, stVars, sgVars, sessVars>>

Call_transcribe_audio ==
    /\ ai_op = ""
    /\ \E language \in Languages, resp \in WhisperResponses :
        /\ ai_op' = "transcribe_audio"
        /\ ai_resp' = [args |-> <<language>>, backend |-> resp]
        /\ ai_ret' = transcribe_audio(whisper_model, language, resp)
        /\ ai_context' = <<>>
        /\ whisper_model' = whisper_model_after(whisper_model, resp)
    /\ UNCHANGED <<propVars, ticketVars, dbVars, stVars, sgVars, sessVars>>

Call_analyze_text ==
    /\ ai_op = ""
    /\ \E context \in ContextArgs, resp \in ChatResponses(TextJson) :
        /\ ai_op' = "analyze_text"
        /\ ai_resp' = [args |-> <<context>>, backend |-> resp]
        /\ ai_ret' = analyze_text(context, resp)
        /\ ai_context' = <<>>
    /\ UNCHANGED <<whisper_model, propVars, ticketVars, dbVars, stVars, sgVars, sessVars>>

Call_classify_intent ==
    /\ ai_op = ""
    /\ \E resp \in ChatResponses(TextJson) :
        /\ ai_op' = "classify_intent"
        /\ ai_resp' = [args |-> <<>>, backend |-> resp]
        /\ ai_ret' = classify_intent(resp)
        /\ ai_context' = <<>>
    /\ UNCHANGED <<whisper_model, propVars, ticketVars, dbVars, stVars, sgVars, sessVars>>

Call_extract_entities ==
    /\ ai_op = ""
    /\ \E resp \in ChatResponses(TextJson) :
        /\ ai_op' = "extract_entities"
        /\ ai_resp' = [args |-> <<>>, backend |-> resp]
        /\ ai_ret' = extract_entities(resp)
        /\ ai_context' = <<>>
    /\ UNCHANGED <<whisper_model, propVars, ticketVars, dbVars, stVars, sgVars, sessVars>>

Call_calculate_urgency ==
    /\ ai_op = ""
    /\ \E context \in ContextArgs, resp \in ChatResponses(TextJson) :
        /\ ai_op' = "calculate_urgency"
        /\ ai_resp' = [args |-> <<context>>, backend |-> resp]
        /\ ai_ret' = calculate_urgency(context, resp)
        /\ ai_context' = <<>>
    /\ UNCHANGED <<whisper_model, propVars, ticketVars, dbVars, stVars, sgVars, sessVars>>

Call_generate_solution ==
    /\ ai_op = ""
    /\ \E ticket_context \in TicketContextArgs, previous_attempts \in PreviousAttemptsArgs,
          resp \in ChatResponses(SolutionJson) :
        /\ ai_op' = "generate_solution"
        /\ ai_resp' = [args |-> <<ticket_context, previous_attempts>>, backend |-> resp]
        /\ ai_ret' = generate_solution(ticket_context, previous_attempts, resp)
        /\ ai_context' = generate_solution_context(ticket_context, previous_attempts)
    /\ UNCHANGED <<whisper_model, propVars, ticketVars, dbVars, stVars, sgVars, sessVars>>

Call_generate_context_summary ==
    /\ ai_op = ""
    /\ \E ticket_title \in TicketTitles, interactions_arg \in InteractionArgs,
          resp \in SummaryResponses :
        /\ ai_op' = "generate_context_summary"
        /\ ai_resp' = [args |-> <<ticket_title, interactions_arg>>, backend |-> resp]
        /\ ai_ret' = generate_context_summary(ticket_title, interactions_arg, resp)
        /\ ai_context' = LET texts == interaction_texts(interactions_arg) IN
                         IF texts.raised THEN <<>> ELSE texts.v.l
    /\ UNCHANGED <<whisper_model, propVars, ticketVars, dbVars, stVars, sgVars, sessVars>>

\* The caller takes the outcome; the service keeps only its Whisper model
Call_done ==
    /\ ai_op # ""
    /\ ai_op' = ""
    /\ ai_resp' = <<>>
    /\ ai_ret' = Return(PyNone)
    /\ ai_context' = <<>>
    /\ UNCHANGED <<whisper_model, propVars, ticketVars, dbVars, stVars, sgVars, sessVars>>

AINext ==
    \/ Call_analyze_image
    \/ Call_transcribe_audio
    \/ Call_analyze_text
    \/ Call_classify_intent
    \/ Call_extract_entities
    \/ Call_calculate_urgency
    \/ Call_generate_solution
    \/ Call_generate_context_summary
    \/ Call_done

----------------------------------------------------------------------------
(* TicketSpec: one ticket row, its interaction rows, and the requests the   *)
(* schemas admit. The repository holds no handler between a request schema  *)
(* and a row: a request that passes its schema is written to the columns it *)
(* names, and nothing else in the row changes.                              *)

NSubmitters == 2
MaxInteractions == 3

Submitters == 1..NSubmitters

\* app/config.py: Settings.auto_escalate_threshold (0.8), in hundredths
auto_escalate_threshold == 80

\* Ticket(...) as TicketCreate fills it: status and priority take the column
\* defaults, the nullable columns stay None
new_ticket ==
    [status |-> "OPEN", priority |-> "MEDIUM", avg_urgency_score |-> PyNone,
     escalation_reason |-> PyNone]

\* TicketUpdate: status and priority are Optional members of their enums; the
\* schema sees the request alone, not the row it is for
TicketUpdate ==
    [status : TicketStatus \cup {"None"}, priority : TicketPriority \cup {"None"}]

\* The row after the fields a TicketUpdate sets are written to it
apply_update(row, update) ==
    [row EXCEPT !.status = IF update.status = "None" THEN @ ELSE update.status,
                !.priority = IF update.priority = "None" THEN @ ELSE update.priority]

\* Interaction: sequence_number = Column(Integer, nullable=False), with no
\* unique constraint; urgency_score = Column(Float); solution_attempt_result
\* = Column(SQLEnum(SolutionAttemptResult)), nullable
InteractionScores == {PyNone, PyFloat(50), PyFloat(90)}

InteractionContents ==
    {[interaction_type |-> "followup", urgency_score |-> u,
      solution_attempt_result |-> "None"] : u \in InteractionScores}
    \cup {[interaction_type |-> "solution_feedback", urgency_score |-> PyNone,
           solution_attempt_result |-> "successful"]}

Interaction(sequence_number, content) ==
    [sequence_number |-> sequence_number,
     interaction_type |-> content.interaction_type,
     urgency_score |-> content.urgency_score,
     solution_attempt_result |-> content.solution_attempt_result,
     is_processed |-> TRUE]

\* max(existing) + 1, 1 for the first interaction
next_sequence_number(rows) ==
    LET used == {rows[n].sequence_number : n \in 1..Len(rows)} IN
    IF used = {} THEN 1 ELSE (CHOOSE m \in used : \A k \in used : k <= m) + 1

\* INSERT INTO interactions: the table takes every row whose sequence_number is not NULL
insert_interaction(rows, row) == Append(rows, row)

NoUpdate == [request |-> [status |-> "", priority |-> ""], outcome |-> ""]

create_ticket ==
    /\ ticket = NoRow
    /\ ticket' = new_ticket
    /\ UNCHANGED <<interactions, pc, next_seq, update_req, propVars, aiVars, dbVars, stVars, sgVars, sessVars>>

\* Every request TicketUpdate admits is written to the row
update_ticket ==
    /\ ticket # NoRow
    /\ \E update \in TicketUpdate :
          /\ ticket' = apply_update(ticket, update)
          /\ update_req' = [request |-> update, outcome |-> "updated"]
    /\ UNCHANGED <<interactions, pc, next_seq, propVars, aiVars, dbVars, stVars, sgVars, sessVars>>

\* A submission reads the ticket's interactions and computes the next number ...
submit_read(p) ==
    /\ ticket # NoRow
    /\ pc[p] = "idle"
    /\ Len(interactions) + Cardinality({q \in Submitters : pc[q] = "insert"}) < MaxInteractions
    /\ next_seq' = [next_seq EXCEPT ![p] = next_sequence_number(interactions)]
    /\ pc' = [pc EXCEPT ![p] = "insert"]
    /\ UNCHANGED <<ticket, interactions, update_req, propVars, aiVars, dbVars, stVars, sgVars, sessVars>>

\* ... and stores its row; an interaction or a feedback touches no column of the ticket
submit_insert(p) ==
    /\ pc[p] = "insert"
    /\ \E content \in InteractionContents :
          interactions' = insert_interaction(interactions, Interaction(next_seq[p], content))
    /\ pc' = [pc EXCEPT ![p] = "idle"]
    /\ UNCHANGED <<ticket, next_seq, update_req, propVars, aiVars, dbVars, stVars, sgVars, sessVars>>

TicketNext ==
    \/ create_ticket
    \/ update_ticket
    \/ \E p \in Submitters : submit_read(p)
    \/ \E p \in Submitters : submit_insert(p)

----------------------------------------------------------------------------
(* DbSpec: the tables of models/, rows added and deleted through a Session. *)
(* The database enforces the primary keys, NOT NULL and the foreign keys    *)
(* the columns declare; the Session applies the cascades the relationships  *)
(* declare.                                                                 *)

MaxTickets == 2
MaxInteractionRows == 2
MaxTurns == 1
MaxMediaFiles == 1
MaxFileAttachments == 1

\* ConversationHistory.ai_confidence = Column(Float), nullable: around the 0.6 cut
TurnConfidences == {PyNone, PyFloat(59), PyFloat(60)}

\* ConversationHistory(...): requires_human_review is True when the caller
\* passes it so, and the column default False when the caller passes none
ReviewArgs == {"unset", "True"}

requires_human_review_column(arg) == IF arg = "unset" THEN FALSE ELSE TRUE

ConversationHistory(id, ticket_id, interaction_id, ai_confidence, review_arg) ==
    [id |-> id, ticket_id |-> ticket_id, interaction_id |-> interaction_id,
     ai_confidence |-> ai_confidence,
     requires_human_review |-> requires_human_review_column(review_arg)]

\* ai_confidence is not None and ai_confidence < 0.6
is_low_confidence(self) ==
    PyBool(self.ai_confidence # PyNone /\ self.ai_confidence.n < 60)

EmptyDb ==
    [tickets |-> {}, interactions |-> {}, conversation_history |-> {},
     file_attachments |-> {}, media_files |-> {},
     next_id |-> [tickets |-> 1, interactions |-> 1, conversation_history |-> 1,
                  file_attachments |-> 1, media_files |-> 1],
     last_delete |-> [op |-> "", id |-> 0, error |-> ""]]

\* id = Column(Integer, primary_key=True): the next value of the table's sequence
insert_row(d, table, row) ==
    [d EXCEPT ![table] = @ \cup {row}, !.next_id[table] = @ + 1]

\* The commit of a delete failed on a constraint: the tables are as they were
integrity_error(d, op, id) ==
    [d EXCEPT !.last_delete = [op |-> op, id |-> id, error |-> "IntegrityError"]]

\* The commit of a delete went through
deleted(d, op, id) == [d EXCEPT !.last_delete = [op |-> op, id |-> id, error |-> ""]]

ticket_ids(d) == {r.id : r \in d.tickets}
interaction_ids(d) == {r.id : r \in d.interactions}

add_ticket ==
    /\ db.next_id.tickets <= MaxTickets
    /\ db' = insert_row(db, "tickets", [id |-> db.next_id.tickets])
    /\ UNCHANGED <<propVars, aiVars, ticketVars, stVars, sgVars, sessVars>>

\* ticket_id = ForeignKey("tickets.id"), nullable=False: the insert fails when
\* no such ticket is stored, and the table is left as it was
add_interaction ==
    /\ db.next_id.interactions <= MaxInteractionRows
    /\ \E ticket_id \in 1..MaxTickets :
          db' = IF ticket_id \in ticket_ids(db)
                   THEN insert_row(db, "interactions",
                                   [id |-> db.next_id.interactions, ticket_id |-> ticket_id])
                   ELSE db
    /\ UNCHANGED <<propVars, aiVars, ticketVars, stVars, sgVars, sessVars>>

\* interaction_id = ForeignKey("interactions.id"), nullable
add_conversation_turn ==
    /\ db.next_id.conversation_history <= MaxTurns
    /\ \E ticket_id \in 1..MaxTickets,
          interaction_id \in {0} \cup (1..MaxInteractionRows),
          ai_confidence \in TurnConfidences, review_arg \in ReviewArgs :
          db' = IF /\ ticket_id \in ticket_ids(db)
                   /\ interaction_id \in {0} \cup interaction_ids(db)
                   THEN insert_row(db, "conversation_history",
                                   ConversationHistory(db.next_id.conversation_history,
                                                       ticket_id, interaction_id,
                                                       ai_confidence, review_arg))
                   ELSE db
    /\ UNCHANGED <<propVars, aiVars, ticketVars, stVars, sgVars, sessVars>>

add_file_attachment ==
    /\ db.next_id.file_attachments <= MaxFileAttachments
    /\ \E ticket_id \in 1..MaxTickets :
          db' = IF ticket_id \in ticket_ids(db)
                   THEN insert_row(db, "file_attachments",
                                   [id |-> db.next_id.file_attachments, ticket_id |-> ticket_id])
                   ELSE db
    /\ UNCHANGED <<propVars, aiVars, ticketVars, stVars, sgVars, sessVars>>

add_media_file ==
    /\ db.next_id.media_files <= MaxMediaFiles
    /\ \E interaction_id \in 1..MaxInteractionRows :
          db' = IF interaction_id \in interaction_ids(db)
                   THEN insert_row(db, "media_files",
                                   [id |-> db.next_id.media_files,
                                    interaction_id |-> interaction_id])
                   ELSE db
    /\ UNCHANGED <<propVars, aiVars, ticketVars, stVars, sgVars, sessVars>>

\* The rows Session.delete removes with the given interactions:
\* Interaction.media_files has cascade="all, delete-orphan"
cascade_interactions(d, ids) ==
    [d EXCEPT !.interactions = {r \in @ : r.id \notin ids},
              !.media_files = {r \in @ : r.interaction_id \notin ids}]

\* Mutant: Ticket.file_attachments has no cascade
cascade_ticket_keeps_attachments(d, ticket_id) ==
    LET ids == {r.id : r \in {x \in d.interactions : x.ticket_id = ticket_id}}
        without == cascade_interactions(d, ids) IN
    [without EXCEPT !.tickets = {r \in @ : r.id # ticket_id},
                    !.conversation_history = {r \in @ : r.ticket_id # ticket_id}]

\* The rows Session.delete removes with a ticket: Ticket.interactions,
\* Ticket.conversation_history and Ticket.file_attachments have
\* cascade="all, delete-orphan"
cascade_ticket(d, ticket_id) ==
    LET ids == {r.id : r \in {x \in d.interactions : x.ticket_id = ticket_id}}
        without == cascade_interactions(d, ids) IN
    [without EXCEPT !.tickets = {r \in @ : r.id # ticket_id},
                    !.conversation_history = {r \in @ : r.ticket_id # ticket_id},
                    !.file_attachments = {r \in @ : r.ticket_id # ticket_id}]

\* Every foreign key of every stored row names a stored row
foreign_keys_hold(d) ==
    /\ \A r \in d.interactions : r.ticket_id \in ticket_ids(d)
    /\ \A r \in d.conversation_history :
          /\ r.ticket_id \in ticket_ids(d)
          /\ r.interaction_id \in {0} \cup interaction_ids(d)
    /\ \A r \in d.file_attachments : r.ticket_id \in ticket_ids(d)
    /\ \A r \in d.media_files : r.interaction_id \in interaction_ids(d)

\* session.delete(ticket); session.commit(). The flush deletes the rows the
\* cascades reach and the ticket; the database rejects it when a stored row
\* would be left naming a deleted one. conversation_history.interaction_id has
\* no relationship, so the flush does not order a turn before the interaction
\* it names: when a turn names one of the ticket's interactions, the DELETE of
\* the interaction can come first and fail on the foreign key.
delete_ticket ==
    /\ \E t \in db.tickets :
          LET own == {r.id : r \in {x \in db.interactions : x.ticket_id = t.id}}
              named == \E r \in db.conversation_history : r.interaction_id \in own
              after == cascade_ticket(db, t.id) IN
          \/ foreign_keys_hold(after) /\ db' = deleted(after, "delete_ticket", t.id)
          \/ /\ ~foreign_keys_hold(after) \/ named
             /\ db' = integrity_error(db, "delete_ticket", t.id)
    /\ UNCHANGED <<propVars, aiVars, ticketVars, stVars, sgVars, sessVars>>

\* session.delete(interaction); session.commit(): fails on the foreign key
\* when a turn names the interaction
delete_interaction ==
    /\ \E i \in db.interactions :
          LET after == cascade_interactions(db, {i.id}) IN
          db' = IF foreign_keys_hold(after)
                   THEN deleted(after, "delete_interaction", i.id)
                   ELSE integrity_error(db, "delete_interaction", i.id)
    /\ UNCHANGED <<propVars, aiVars, ticketVars, stVars, sgVars, sessVars>>

DbNext ==
    \/ add_ticket
    \/ add_interaction
    \/ add_conversation_turn
    \/ add_file_attachment
    \/ add_media_file
    \/ delete_ticket
    \/ delete_interaction

----------------------------------------------------------------------------
(* services/local_file_service.py, services/r2_service.py *)

MaxObjects == 2

\* ticket_id: two ids of which one's decimal text starts with the other's
StorageTicketIds == {1, 10}

\* str(ticket_id), a character at a time
str_int(i) ==
    LET digit(n) == <<"0", "1", "2", "3", "4", "5", "6", "7", "8", "9">>[n + 1] IN
    IF i < 10 THEN <<digit(i)>> ELSE <<digit(i \div 10), digit(i % 10)>>

\* file_data: three contents, two of one length
FileData == {<<1, 2>>, <<2, 1>>, <<3>>}

\* hashlib.md5(file_data).hexdigest()[:8]: 32 bits of the digest. The prefix
\* is not injective; two of the sample contents share theirs.
file_hash(file_data) == IF file_data = <<3>> THEN "9e688c58" ELSE "7a1c2d4e"

\* datetime.utcnow().strftime("%Y%m%d_%H%M%S"): the second of the upload
Timestamps == {"20250125_100000", "20250125_100001"}

\* tickets/{ticket_id}/interactions/{interaction_id}/{timestamp}_{file_hash}{ext}
\* tickets/{ticket_id}/attachments/{attachment_type}/{timestamp}_{file_hash}{ext}
\* for one interaction_id, one attachment_type and one extension
r2_key(ticket_id, folder, timestamp, file_data) ==
    [ticket_id |-> ticket_id, folder |-> folder, timestamp |-> timestamp,
     file_hash |-> file_hash(file_data)]

\* The text of a key, and its path under storage_path: the digits of the
\* ticket id one by one, the other parts whole
key_text(key) ==
    <<"tickets", "/">> \o str_int(key.ticket_id) \o <<"/", key.folder, "/">>
    \o <<"1", "/", key.timestamp, "_", key.file_hash, ".txt">>

\* str.startswith, as list_objects_v2 applies Prefix
startswith(s, prefix) ==
    /\ Len(prefix) <= Len(s)
    /\ SubSeq(s, 1, Len(prefix)) = prefix

\* Path.rglob('*') under a directory: the files whose path continues the
\* directory's by a separator
under_directory(path, directory) == startswith(path, directory \o <<"/">>)

\* f"tickets/{ticket_id}", then the file_type when one is given
ticket_path(ticket_id, file_type) ==
    <<"tickets", "/">> \o str_int(ticket_id)
    \o (IF file_type = "None" THEN <<>> ELSE <<"/", file_type>>)

\* The storage of a service: the file or object stored under each key
EmptyStorage == [k \in {} |-> <<>>]

store(objects, key, file_data) ==
    [k \in DOMAIN objects \cup {key} |-> IF k = key THEN file_data ELSE objects[k]]

remove(objects, key) == [k \in DOMAIN objects \ {key} |-> objects[k]]

\* The dict an upload returns, as far as the services agree on it
upload_result(key, file_data) ==
    PyDict([r2_key |-> key, file_size |-> PyInt(Len(file_data))])

\* An entry of a listing
file_entry(objects, key) == [key |-> key, size |-> Len(objects[key])]

\* The bytes json.dump writes for a metadata record: at least one
metadata_file_size == 1

RECURSIVE total_size(_)
total_size(objects) ==
    IF DOMAIN objects = {} THEN 0
    ELSE LET k == CHOOSE x \in DOMAIN objects : TRUE IN
         Len(objects[k]) + total_size(remove(objects, k))

\* LocalFileService: files under storage_path, metadata files under
\* storage_path/.metadata. fault: the file system raises OSError at the
\* first call the operation makes; meta_fault: at the call on the metadata
\* file, which comes after the one on the file itself.

Local_upload(d, key, file_data, fault, meta_fault) ==
    IF fault THEN [ret |-> Raise("OSError"), disk |-> d]
    ELSE IF meta_fault
        THEN [ret |-> Raise("OSError"),
              disk |-> [files |-> store(d.files, key, file_data), metadata |-> d.metadata]]
    ELSE [ret |-> Return(upload_result(key, file_data)),
          disk |-> [files |-> store(d.files, key, file_data),
                    metadata |-> d.metadata \cup {key}]]

Local_upload_media_file(d, file_data, ticket_id, now, fault, meta_fault) ==
    Local_upload(d, r2_key(ticket_id, "interactions", now, file_data), file_data,
                 fault, meta_fault)

Local_upload_ticket_attachment(d, file_data, ticket_id, now, fault, meta_fault) ==
    Local_upload(d, r2_key(ticket_id, "attachments", now, file_data), file_data,
                 fault, meta_fault)

Local_download_file(d, key, fault) ==
    IF fault THEN Raise("OSError")
    ELSE IF key \notin DOMAIN d.files THEN Raise("FileNotFoundError")
    ELSE Return(d.files[key])

\* stat of the file, then the stored metadata ({} when there is none)
Local_get_file_metadata(d, key) ==
    IF key \notin DOMAIN d.files THEN Raise("FileNotFoundError")
    ELSE Return(PyDict([content_length |-> PyInt(Len(d.files[key])),
                        metadata |-> IF key \in d.metadata
                                        THEN PyDict([file_size |-> PyInt(Len(d.files[key]))])
                                        ELSE EmptyDict]))

\* delete_file that leaves the metadata file where it is
Local_delete_file_keeps_metadata(d, key, fault, meta_fault) ==
    IF fault \/ key \notin DOMAIN d.files THEN [ret |-> Return(PyBool(FALSE)), disk |-> d]
    ELSE [ret |-> Return(PyBool(TRUE)),
          disk |-> [files |-> remove(d.files, key), metadata |-> d.metadata]]

\* except Exception: return False
Local_delete_file(d, key, fault, meta_fault) ==
    IF fault THEN [ret |-> Return(PyBool(FALSE)), disk |-> d]
    ELSE IF key \in DOMAIN d.files
        THEN IF meta_fault /\ key \in d.metadata
                THEN [ret |-> Return(PyBool(FALSE)),
                      disk |-> [files |-> remove(d.files, key), metadata |-> d.metadata]]
                ELSE [ret |-> Return(PyBool(TRUE)),
                      disk |-> [files |-> remove(d.files, key),
                                metadata |-> d.metadata \ {key}]]
        ELSE [ret |-> Return(PyBool(FALSE)), disk |-> d]

\* except Exception: return []
Local_list_ticket_files(d, ticket_id, file_type, fault) ==
    IF fault THEN Return({})
    ELSE Return({file_entry(d.files, k) :
                    k \in {x \in DOMAIN d.files :
                              under_directory(key_text(x),
                                              ticket_path(ticket_id, file_type))}})

\* except Exception: return {}. rglob('*') walks .metadata too, and the name
\* of a metadata file does not start with '.'
Local_get_storage_stats(d, fault) ==
    IF fault THEN Return(EmptyDict)
    ELSE Return(PyDict([total_objects |-> PyInt(Cardinality(DOMAIN d.files)
                                                + Cardinality(d.metadata)),
                        total_size_bytes |->
                            PyInt(total_size(d.files)
                                  + Cardinality(d.metadata) * metadata_file_size),
                        bucket |-> PyStr("local")]))

\* R2FileService: objects of one bucket. fault: the S3 call raises ClientError.

R2_upload(b, key, file_data, fault) ==
    IF fault THEN [ret |-> Raise("ClientError"), bucket |-> b]
    ELSE [ret |-> Return(upload_result(key, file_data)),
          bucket |-> store(b, key, file_data)]

R2_upload_media_file(b, file_data, ticket_id, now, fault) ==
    R2_upload(b, r2_key(ticket_id, "interactions", now, file_data), file_data, fault)

R2_upload_ticket_attachment(b, file_data, ticket_id, now, fault) ==
    R2_upload(b, r2_key(ticket_id, "attachments", now, file_data), file_data, fault)

\* get_object raises ClientError (NoSuchKey) for a key that is not stored
R2_download_file(b, key, fault) ==
    IF fault \/ key \notin DOMAIN b THEN Raise("ClientError")
    ELSE Return(b[key])

\* delete_object succeeds whether or not the key is stored;
\* except ClientError: return False
R2_delete_file(b, key, fault) ==
    IF fault THEN [ret |-> Return(PyBool(FALSE)), bucket |-> b]
    ELSE [ret |-> Return(PyBool(TRUE)), bucket |-> remove(b, key)]

\* except ClientError: return []
\* list_ticket_files with a prefix that does not end the ticket id
R2_list_ticket_files_open_prefix(b, ticket_id, file_type, fault) ==
    IF fault THEN Return({})
    ELSE Return({file_entry(b, k) :
                    k \in {x \in DOMAIN b :
                              startswith(key_text(x), ticket_path(ticket_id, file_type))}})

\* Prefix = f"tickets/{ticket_id}/", then f"{file_type}/" when one is given
R2_list_ticket_files(b, ticket_id, file_type, fault) ==
    IF fault THEN Return({})
    ELSE Return({file_entry(b, k) :
                    k \in {x \in DOMAIN b :
                              startswith(key_text(x),
                                         ticket_path(ticket_id, file_type) \o <<"/">>)}})

\* except ClientError: return {}
R2_get_storage_stats(b, fault) ==
    IF fault THEN Return(EmptyDict)
    ELSE Return(PyDict([total_objects |-> PyInt(Cardinality(DOMAIN b)),
                        total_size_bytes |-> PyInt(total_size(b)),
                        bucket |-> PyStr("rapid-resolve")]))

\* batch_upload, the same code in both services. file_info: a dict of the
\* caller's, with or without 'data', 'filename' and 'interaction_id'.
MaxBatch == 2

FileInfos ==
    {[data |-> <<3>>, filename |-> "a.txt", interaction_id |-> 1],
     [data |-> <<1, 2>>, filename |-> "b.txt"],
     [filename |-> "c.txt"],
     [data |-> <<3>>]}

\* self.upload_media_file / self.upload_ticket_attachment of either service,
\* with the storage it leaves
service_upload(service, storage, file_info, ticket_id, now, fault) ==
    LET folder == IF "interaction_id" \in DOMAIN file_info
                     THEN "interactions" ELSE "attachments"
        key == r2_key(ticket_id, folder, now, file_info.data) IN
    IF service = "local"
        THEN LET u == Local_upload(storage, key, file_info.data, fault, FALSE) IN
             [ret |-> u.ret, storage |-> u.disk]
        ELSE LET u == R2_upload(storage, key, file_info.data, fault) IN
             [ret |-> u.ret, storage |-> u.bucket]

\* result['status'] = 'success'; result['original_filename'] = file_info['filename']
batch_success(result, file_info) ==
    PyDict([k \in DOMAIN result.d \cup {"status", "original_filename"} |->
               IF k = "status" THEN PyStr("success")
               ELSE IF k = "original_filename" THEN PyStr(file_info.filename)
               ELSE result.d[k]])

\* The except branch: it reads file_info['filename'] again
batch_error(e, file_info) ==
    PyDict([status |-> PyStr("error"), error |-> PyStr(e),
            original_filename |-> PyStr(file_info.filename)])

\* The loop over files, from the storage and the results so far; fault_at:
\* the upload at which the storage fails (0: none)
RECURSIVE batch_upload(_, _, _, _, _, _, _)
batch_upload(service, storage, files, ticket_id, now, fault_at, results) ==
    IF files = <<>> THEN [ret |-> Return(PyList(results)), storage |-> storage]
    ELSE LET file_info == Head(files) IN
         IF "filename" \notin DOMAIN file_info
             THEN [ret |-> Raise("KeyError"), storage |-> storage]
         ELSE IF "data" \notin DOMAIN file_info
             THEN batch_upload(service, storage, Tail(files), ticket_id, now, fault_at,
                               Append(results, batch_error("KeyError", file_info)))
         ELSE LET u == service_upload(service, storage, file_info, ticket_id, now,
                                      fault_at = Len(results) + 1) IN
              batch_upload(service, u.storage, Tail(files), ticket_id, now, fault_at,
                           Append(results,
                                  IF u.ret.raised THEN batch_error(u.ret.e, file_info)
                                  ELSE batch_success(u.ret.v, file_info)))

----------------------------------------------------------------------------
(* StorageSpec: a caller makes the same call on both services; the storage  *)
(* behind a call fails (fault) or not, for both alike.                      *)

\* The keys a caller asks for: the stored ones and one more
RequestedKeys ==
    DOMAIN disk.files \cup DOMAIN bucket
    \cup {r2_key(1, "attachments", "20250125_100000", <<3>>)}

\* The keys an upload has returned and no delete_file has removed since
issued_after_delete(pairs, key) == {x \in pairs : x.key # key}

Call_upload_media_file ==
    /\ Cardinality(DOMAIN bucket) < MaxObjects
    /\ \E file_data \in FileData, ticket_id \in StorageTicketIds, now \in Timestamps,
          fault \in BOOLEAN :
        LET key == r2_key(ticket_id, "interactions", now, file_data)
            l == Local_upload_media_file(disk, file_data, ticket_id, now, fault, FALSE)
            r == R2_upload_media_file(bucket, file_data, ticket_id, now, fault) IN
        /\ st_op' = [op |-> "upload_media_file", key |-> key, file_data |-> file_data,
                     fault |-> fault]
        /\ st_ret' = [local |-> l.ret, r2 |-> r.ret]
        /\ disk' = l.disk
        /\ bucket' = r.bucket
        /\ issued' = IF l.ret.raised \/ r.ret.raised THEN issued
                     ELSE issued \cup {[key |-> key, file_data |-> file_data]}
    /\ UNCHANGED <<propVars, aiVars, ticketVars, dbVars, sgVars, sessVars>>

Call_upload_ticket_attachment ==
    /\ Cardinality(DOMAIN bucket) < MaxObjects
    /\ \E file_data \in FileData, ticket_id \in StorageTicketIds, now \in Timestamps,
          fault \in BOOLEAN :
        LET key == r2_key(ticket_id, "attachments", now, file_data)
            l == Local_upload_ticket_attachment(disk, file_data, ticket_id, now, fault, FALSE)
            r == R2_upload_ticket_attachment(bucket, file_data, ticket_id, now, fault) IN
        /\ st_op' = [op |-> "upload_ticket_attachment", key |-> key, file_data |-> file_data,
                     fault |-> fault]
        /\ st_ret' = [local |-> l.ret, r2 |-> r.ret]
        /\ disk' = l.disk
        /\ bucket' = r.bucket
        /\ issued' = IF l.ret.raised \/ r.ret.raised THEN issued
                     ELSE issued \cup {[key |-> key, file_data |-> file_data]}
    /\ UNCHANGED <<propVars, aiVars, ticketVars, dbVars, sgVars, sessVars>>

Call_download_file ==
    /\ \E key \in RequestedKeys, fault \in BOOLEAN :
        /\ st_op' = [op |-> "download_file", key |-> key, fault |-> fault]
        /\ st_ret' = [local |-> Local_download_file(disk, key, fault),
                      r2 |-> R2_download_file(bucket, key, fault)]
    /\ UNCHANGED <<disk, bucket, issued, propVars, aiVars, ticketVars, dbVars, sgVars, sessVars>>

Call_delete_file ==
    /\ \E key \in RequestedKeys, fault \in BOOLEAN :
        LET l == Local_delete_file(disk, key, fault, FALSE)
            r == R2_delete_file(bucket, key, fault) IN
        /\ st_op' = [op |-> "delete_file", key |-> key, fault |-> fault]
        /\ st_ret' = [local |-> l.ret, r2 |-> r.ret]
        /\ disk' = l.disk
        /\ bucket' = r.bucket
        /\ issued' = IF fault THEN issued ELSE issued_after_delete(issued, key)
    /\ UNCHANGED <<propVars, aiVars, ticketVars, dbVars, sgVars, sessVars>>

Call_list_ticket_files ==
    /\ \E ticket_id \in StorageTicketIds, file_type \in {"None", "interactions", "attachments"},
          fault \in BOOLEAN :
        /\ st_op' = [op |-> "list_ticket_files", ticket_id |-> ticket_id,
                     file_type |-> file_type, fault |-> fault]
        /\ st_ret' = [local |-> Local_list_ticket_files(disk, ticket_id, file_type, fault),
                      r2 |-> R2_list_ticket_files(bucket, ticket_id, file_type, fault)]
    /\ UNCHANGED <<disk, bucket, issued, propVars, aiVars, ticketVars, dbVars, sgVars, sessVars>>

Call_get_storage_stats ==
    /\ \E fault \in BOOLEAN :
        /\ st_op' = [op |-> "get_storage_stats", fault |-> fault]
        /\ st_ret' = [local |-> Local_get_storage_stats(disk, fault),
                      r2 |-> R2_get_storage_stats(bucket, fault)]
    /\ UNCHANGED <<disk, bucket, issued, propVars, aiVars, ticketVars, dbVars, sgVars, sessVars>>

\* The keys and bytes of the uploads a batch reported as successful
batch_issued(files, outcome) ==
    IF outcome.raised THEN {}
    ELSE {[key |-> outcome.v.l[i].d.r2_key, file_data |-> files[i].data] :
             i \in {j \in 1..Len(files) : outcome.v.l[j].d.status = PyStr("success")}}

Call_batch_upload ==
    /\ \E n \in 0..MaxBatch :
        /\ Cardinality(DOMAIN bucket) + n <= MaxObjects
        /\ \E files \in [1..n -> FileInfos], ticket_id \in StorageTicketIds,
              now \in Timestamps, fault_at \in 0..n :
            LET l == batch_upload("local", disk, files, ticket_id, now, fault_at, <<>>)
                r == batch_upload("r2", bucket, files, ticket_id, now, fault_at, <<>>) IN
            /\ st_op' = [op |-> "batch_upload", files |-> files, ticket_id |-> ticket_id,
                         fault |-> fault_at # 0]
            /\ st_ret' = [local |-> l.ret, r2 |-> r.ret]
            /\ disk' = l.storage
            /\ bucket' = r.storage
            /\ issued' = issued \cup (batch_issued(files, l.ret) \cap batch_issued(files, r.ret))
    /\ UNCHANGED <<propVars, aiVars, ticketVars, dbVars, sgVars, sessVars>>

StorageNext ==
    \/ Call_batch_upload
    \/ Call_upload_media_file
    \/ Call_upload_ticket_attachment
    \/ Call_download_file
    \/ Call_delete_file
    \/ Call_list_ticket_files
    \/ Call_get_storage_stats

----------------------------------------------------------------------------
(* LocalSpec: LocalFileService alone, on a file system that can fail at    *)
(* each of the steps an operation takes.                                   *)

\* Where the file system fails during a call: nowhere, at the first step, or
\* at the step on the metadata file
LocalFaults ==
    {[first |-> FALSE, meta |-> FALSE], [first |-> TRUE, meta |-> FALSE],
     [first |-> FALSE, meta |-> TRUE]}

\* settings.max_file_size_mb
max_file_size_mb == 50

MB == 1024 * 1024

\* file_size and max_size_mb as callers give them
FileSizes == {0, 1, MB, 50 * MB, 50 * MB + 1, 100 * MB}
MaxSizeArgs == {PyNone, PyInt(0), PyInt(1), PyInt(100)}

validate_file_size(file_size, max_size_mb) ==
    LET max_size == py_or(max_size_mb, PyInt(max_file_size_mb)).i * 1024 * 1024 IN
    PyBool(file_size <= max_size)

Disk_upload_media_file ==
    /\ Cardinality(DOMAIN disk.files \cup disk.metadata) < MaxObjects
    /\ \E file_data \in FileData, ticket_id \in StorageTicketIds, now \in Timestamps,
          fault \in LocalFaults :
        LET l == Local_upload_media_file(disk, file_data, ticket_id, now,
                                         fault.first, fault.meta) IN
        /\ st_op' = [op |-> "upload_media_file",
                     key |-> r2_key(ticket_id, "interactions", now, file_data),
                     file_data |-> file_data, fault |-> fault.first, meta_fault |-> fault.meta]
        /\ st_ret' = [local |-> l.ret, r2 |-> Return(PyNone)]
        /\ disk' = l.disk
    /\ UNCHANGED <<bucket, issued, propVars, aiVars, ticketVars, dbVars, sgVars, sessVars>>

Disk_upload_ticket_attachment ==
    /\ Cardinality(DOMAIN disk.files \cup disk.metadata) < MaxObjects
    /\ \E file_data \in FileData, ticket_id \in StorageTicketIds, now \in Timestamps,
          fault \in LocalFaults :
        LET l == Local_upload_ticket_attachment(disk, file_data, ticket_id, now,
                                                fault.first, fault.meta) IN
        /\ st_op' = [op |-> "upload_ticket_attachment",
                     key |-> r2_key(ticket_id, "attachments", now, file_data),
                     file_data |-> file_data, fault |-> fault.first, meta_fault |-> fault.meta]
        /\ st_ret' = [local |-> l.ret, r2 |-> Return(PyNone)]
        /\ disk' = l.disk
    /\ UNCHANGED <<bucket, issued, propVars, aiVars, ticketVars, dbVars, sgVars, sessVars>>

Disk_delete_file ==
    /\ \E key \in RequestedKeys \cup disk.metadata, fault \in LocalFaults :
        LET l == Local_delete_file(disk, key, fault.first, fault.meta) IN
        /\ st_op' = [op |-> "delete_file", key |-> key, fault |-> fault.first,
                     meta_fault |-> fault.meta]
        /\ st_ret' = [local |-> l.ret, r2 |-> Return(PyNone)]
        /\ disk' = l.disk
    /\ UNCHANGED <<bucket, issued, propVars, aiVars, ticketVars, dbVars, sgVars, sessVars>>

Disk_validate_file_size ==
    /\ \E file_size \in FileSizes, max_size_mb \in MaxSizeArgs :
        /\ st_op' = [op |-> "validate_file_size", file_size |-> file_size,
                     max_size_mb |-> max_size_mb, fault |-> FALSE]
        /\ st_ret' = [local |-> Return(validate_file_size(file_size, max_size_mb)),
                      r2 |-> Return(PyNone)]
    /\ UNCHANGED <<disk, bucket, issued, propVars, aiVars, ticketVars, dbVars, sgVars, sessVars>>

LocalNext ==
    \/ Disk_upload_media_file
    \/ Disk_upload_ticket_attachment
    \/ Disk_delete_file
    \/ Disk_validate_file_size

----------------------------------------------------------------------------
(* get_ai_service, get_file_service, get_r2_service: the module-level     *)
(* instance of each service, made on first use. The getters are plain      *)
(* functions that FastAPI calls as dependencies, from the threads of its   *)
(* pool. A thread can be preempted between any two of a getter's steps:    *)
(* the test of the global, the constructor call, the store into the        *)
(* global, the read for the return.                                        *)

NThreads == 2
MaxConstructions == 2

Threads == 1..NThreads
Getters == {"get_ai_service", "get_file_service", "get_r2_service"}

Idle == [at |-> "idle", getter |-> "", new |-> 0, outcome |-> Return(PyNone)]

\* A thread calls a getter
get_service_call(t) ==
    /\ call[t].at = "idle"
    /\ \E g \in Getters : call' = [call EXCEPT ![t] = [Idle EXCEPT !.at = "test", !.getter = g]]
    /\ UNCHANGED <<_instance, constructed, returned>>
    /\ UNCHANGED <<propVars, aiVars, ticketVars, dbVars, stVars, sessVars>>

\* if _instance is None:
get_service_test(t) ==
    /\ call[t].at = "test"
    /\ call' = [call EXCEPT ![t].at = IF _instance[call[t].getter] = 0
                                        THEN "construct" ELSE "return"]
    /\ UNCHANGED <<_instance, constructed, returned>>
    /\ UNCHANGED <<propVars, aiVars, ticketVars, dbVars, stVars, sessVars>>

\* AIService(), LocalFileService(), R2FileService(): a new instance, or the
\* constructor raises and so does the getter
get_service_construct(t) ==
    /\ call[t].at = "construct"
    /\ LET g == call[t].getter IN
       \/ /\ constructed[g] < MaxConstructions
          /\ constructed' = [constructed EXCEPT ![g] = @ + 1]
          /\ call' = [call EXCEPT ![t].at = "store", ![t].new = constructed[g] + 1]
       \/ /\ call' = [call EXCEPT ![t] = [Idle EXCEPT !.outcome = Raise("Exception")]]
          /\ UNCHANGED constructed
    /\ UNCHANGED <<_instance, returned>>
    /\ UNCHANGED <<propVars, aiVars, ticketVars, dbVars, stVars, sessVars>>

\* _instance = <the new instance>
get_service_store(t) ==
    /\ call[t].at = "store"
    /\ _instance' = [_instance EXCEPT ![call[t].getter] = call[t].new]
    /\ call' = [call EXCEPT ![t].at = "return"]
    /\ UNCHANGED <<constructed, returned>>
    /\ UNCHANGED <<propVars, aiVars, ticketVars, dbVars, stVars, sessVars>>

\* return _instance
get_service_return(t) ==
    /\ call[t].at = "return"
    /\ LET g == call[t].getter IN
       /\ returned' = [returned EXCEPT ![g] = @ \cup {_instance[g]}]
       /\ call' = [call EXCEPT ![t] = [Idle EXCEPT !.outcome = Return(PyInt(_instance[g]))]]
    /\ UNCHANGED <<_instance, constructed>>
    /\ UNCHANGED <<propVars, aiVars, ticketVars, dbVars, stVars, sessVars>>

SingletonNext ==
    \/ \E t \in Threads : get_service_call(t)
    \/ \E t \in Threads : get_service_test(t)
    \/ \E t \in Threads : get_service_construct(t)
    \/ \E t \in Threads : get_service_store(t)
    \/ \E t \in Threads : get_service_return(t)

----------------------------------------------------------------------------
(* app/database.py: get_db, the generator FastAPI drives around a request. *)
(* A Session is the sequence of what was done to it: "open", "use",        *)
(* "rollback", "close".                                                    *)

NRequests == 2
MaxUses == 1

Requests == 1..NRequests

\* What the consumer of the session raises
ConsumerExceptions == {"IntegrityError", "ValueError"}

NoRequest == [at |-> "start", session |-> <<>>, exc |-> "", outcome |-> Return(PyNone)]

\* except Exception as e: db.rollback(); raise
get_db_except(session) == Append(session, "rollback")

\* get_db that closes the session on the normal path only
get_db_finally_unless_rolled_back(session) ==
    IF session[Len(session)] = "rollback" THEN session ELSE Append(session, "close")

\* finally: db.close()
get_db_finally(session) == Append(session, "close")

\* db = SessionLocal(); yield db
get_db_open(r) ==
    /\ request[r].at = "start"
    /\ request' = [request EXCEPT ![r].session = <<"open">>, ![r].at = "yield"]
    /\ UNCHANGED <<propVars, aiVars, ticketVars, dbVars, stVars, sgVars>>

\* The consumer works with the session it was given
use_session(r) ==
    /\ request[r].at = "yield"
    /\ Cardinality({i \in DOMAIN request[r].session : request[r].session[i] = "use"}) < MaxUses
    /\ request' = [request EXCEPT ![r].session = Append(@, "use")]
    /\ UNCHANGED <<propVars, aiVars, ticketVars, dbVars, stVars, sgVars>>

\* The consumer finishes: the generator is resumed after the yield
consumer_returns(r) ==
    /\ request[r].at = "yield"
    /\ request' = [request EXCEPT ![r].at = "finally"]
    /\ UNCHANGED <<propVars, aiVars, ticketVars, dbVars, stVars, sgVars>>

\* The consumer raises: the exception is thrown into the generator at the yield
consumer_raises(r) ==
    /\ request[r].at = "yield"
    /\ \E e \in ConsumerExceptions :
          request' = [request EXCEPT ![r].at = "except", ![r].exc = e]
    /\ UNCHANGED <<propVars, aiVars, ticketVars, dbVars, stVars, sgVars>>

get_db_rollback(r) ==
    /\ request[r].at = "except"
    /\ request' = [request EXCEPT ![r].session = get_db_except(@), ![r].at = "finally"]
    /\ UNCHANGED <<propVars, aiVars, ticketVars, dbVars, stVars, sgVars>>

\* The finally clause, on the way out: the pending exception propagates
get_db_close(r) ==
    /\ request[r].at = "finally"
    /\ request' = [request EXCEPT
                      ![r].session = get_db_finally(@),
                      ![r].at = "done",
                      ![r].outcome = IF request[r].exc = "" THEN Return(PyNone)
                                     ELSE Raise(request[r].exc)]
    /\ UNCHANGED <<propVars, aiVars, ticketVars, dbVars, stVars, sgVars>>

SessionNext ==
    \/ \E r \in Requests : get_db_open(r)
    \/ \E r \in Requests : use_session(r)
    \/ \E r \in Requests : consumer_returns(r)
    \/ \E r \in Requests : consumer_raises(r)
    \/ \E r \in Requests : get_db_rollback(r)
    \/ \E r \in Requests : get_db_close(r)

----------------------------------------------------------------------------
(* The specifications. Each starts the variables of the others at rest.    *)

PropInit ==
    /\ tk \in TicketRows /\ prop = "" /\ ret = PyNone
    /\ ai_op = "" /\ ai_resp = <<>> /\ ai_ret = Return(PyNone) /\ ai_context = <<>>
    /\ whisper_model = FALSE
    /\ ticket = NoRow /\ interactions = <<>>
    /\ pc = [p \in Submitters |-> "idle"] /\ next_seq = [p \in Submitters |-> 0]
    /\ update_req = NoUpdate
    /\ db = EmptyDb
    /\ disk = [files |-> EmptyStorage, metadata |-> {}] /\ bucket = EmptyStorage
    /\ st_op = [op |-> ""] /\ st_ret = [local |-> Return(PyNone), r2 |-> Return(PyNone)]
    /\ issued = {}
    /\ _instance = [g \in Getters |-> 0] /\ constructed = [g \in Getters |-> 0]
    /\ returned = [g \in Getters |-> {}] /\ call = [t \in Threads |-> Idle]
    /\ request = [r \in Requests |-> NoRequest]

AIInit ==
    /\ tk = NoRow /\ prop = "" /\ ret = PyNone
    /\ ai_op = "" /\ ai_resp = <<>> /\ ai_ret = Return(PyNone) /\ ai_context = <<>>
    /\ whisper_model = FALSE
    /\ ticket = NoRow /\ interactions = <<>>
    /\ pc = [p \in Submitters |-> "idle"] /\ next_seq = [p \in Submitters |-> 0]
    /\ update_req = NoUpdate
    /\ db = EmptyDb
    /\ disk = [files |-> EmptyStorage, metadata |-> {}] /\ bucket = EmptyStorage
    /\ st_op = [op |-> ""] /\ st_ret = [local |-> Return(PyNone), r2 |-> Return(PyNone)]
    /\ issued = {}
    /\ _instance = [g \in Getters |-> 0] /\ constructed = [g \in Getters |-> 0]
    /\ returned = [g \in Getters |-> {}] /\ call = [t \in Threads |-> Idle]
    /\ request = [r \in Requests |-> NoRequest]

TicketInit ==
    /\ tk = NoRow /\ prop = "" /\ ret = PyNone
    /\ ai_op = "" /\ ai_resp = <<>> /\ ai_ret = Return(PyNone) /\ ai_context = <<>>
    /\ whisper_model = FALSE
    /\ ticket = NoRow /\ interactions = <<>>
    /\ pc = [p \in Submitters |-> "idle"] /\ next_seq = [p \in Submitters |-> 0]
    /\ update_req = NoUpdate
    /\ db = EmptyDb
    /\ disk = [files |-> EmptyStorage, metadata |-> {}] /\ bucket = EmptyStorage
    /\ st_op = [op |-> ""] /\ st_ret = [local |-> Return(PyNone), r2 |-> Return(PyNone)]
    /\ issued = {}
    /\ _instance = [g \in Getters |-> 0] /\ constructed = [g \in Getters |-> 0]
    /\ returned = [g \in Getters |-> {}] /\ call = [t \in Threads |-> Idle]
    /\ request = [r \in Requests |-> NoRequest]

DbInit ==
    /\ tk = NoRow /\ prop = "" /\ ret = PyNone
    /\ ai_op = "" /\ ai_resp = <<>> /\ ai_ret = Return(PyNone) /\ ai_context = <<>>
    /\ whisper_model = FALSE
    /\ ticket = NoRow /\ interactions = <<>>
    /\ pc = [p \in Submitters |-> "idle"] /\ next_seq = [p \in Submitters |-> 0]
    /\ update_req = NoUpdate
    /\ db = EmptyDb
    /\ disk = [files |-> EmptyStorage, metadata |-> {}] /\ bucket = EmptyStorage
    /\ st_op = [op |-> ""] /\ st_ret = [local |-> Return(PyNone), r2 |-> Return(PyNone)]
    /\ issued = {}
    /\ _instance = [g \in Getters |-> 0] /\ constructed = [g \in Getters |-> 0]
    /\ returned = [g \in Getters |-> {}] /\ call = [t \in Threads |-> Idle]
    /\ request = [r \in Requests |-> NoRequest]

StorageInit ==
    /\ tk = NoRow /\ prop = "" /\ ret = PyNone
    /\ ai_op = "" /\ ai_resp = <<>> /\ ai_ret = Return(PyNone) /\ ai_context = <<>>
    /\ whisper_model = FALSE
    /\ ticket = NoRow /\ interactions = <<>>
    /\ pc = [p \in Submitters |-> "idle"] /\ next_seq = [p \in Submitters |-> 0]
    /\ update_req = NoUpdate
    /\ db = EmptyDb
    /\ disk = [files |-> EmptyStorage, metadata |-> {}] /\ bucket = EmptyStorage
    /\ st_op = [op |-> ""] /\ st_ret = [local |-> Return(PyNone), r2 |-> Return(PyNone)]
    /\ issued = {}
    /\ _instance = [g \in Getters |-> 0] /\ constructed = [g \in Getters |-> 0]
    /\ returned = [g \in Getters |-> {}] /\ call = [t \in Threads |-> Idle]
    /\ request = [r \in Requests |-> NoRequest]

LocalInit ==
    /\ tk = NoRow /\ prop = "" /\ ret = PyNone
    /\ ai_op = "" /\ ai_resp = <<>> /\ ai_ret = Return(PyNone) /\ ai_context = <<>>
    /\ whisper_model = FALSE
    /\ ticket = NoRow /\ interactions = <<>>
    /\ pc = [p \in Submitters |-> "idle"] /\ next_seq = [p \in Submitters |-> 0]
    /\ update_req = NoUpdate
    /\ db = EmptyDb
    /\ disk = [files |-> EmptyStorage, metadata |-> {}] /\ bucket = EmptyStorage
    /\ st_op = [op |-> ""] /\ st_ret = [local |-> Return(PyNone), r2 |-> Return(PyNone)]
    /\ issued = {}
    /\ _instance = [g \in Getters |-> 0] /\ constructed = [g \in Getters |-> 0]
    /\ returned = [g \in Getters |-> {}] /\ call = [t \in Threads |-> Idle]
    /\ request = [r \in Requests |-> NoRequest]

SingletonInit ==
    /\ tk = NoRow /\ prop = "" /\ ret = PyNone
    /\ ai_op = "" /\ ai_resp = <<>> /\ ai_ret = Return(PyNone) /\ ai_context = <<>>
    /\ whisper_model = FALSE
    /\ ticket = NoRow /\ interactions = <<>>
    /\ pc = [p \in Submitters |-> "idle"] /\ next_seq = [p \in Submitters |-> 0]
    /\ update_req = NoUpdate
    /\ db = EmptyDb
    /\ disk = [files |-> EmptyStorage, metadata |-> {}] /\ bucket = EmptyStorage
    /\ st_op = [op |-> ""] /\ st_ret = [local |-> Return(PyNone), r2 |-> Return(PyNone)]
    /\ issued = {}
    /\ _instance = [g \in Getters |-> 0] /\ constructed = [g \in Getters |-> 0]
    /\ returned = [g \in Getters |-> {}] /\ call = [t \in Threads |-> Idle]
    /\ request = [r \in Requests |-> NoRequest]

SessionInit ==
    /\ tk = NoRow /\ prop = "" /\ ret = PyNone
    /\ ai_op = "" /\ ai_resp = <<>> /\ ai_ret = Return(PyNone) /\ ai_context = <<>>
    /\ whisper_model = FALSE
    /\ ticket = NoRow /\ interactions = <<>>
    /\ pc = [p \in Submitters |-> "idle"] /\ next_seq = [p \in Submitters |-> 0]
    /\ update_req = NoUpdate
    /\ db = EmptyDb
    /\ disk = [files |-> EmptyStorage, metadata |-> {}] /\ bucket = EmptyStorage
    /\ st_op = [op |-> ""] /\ st_ret = [local |-> Return(PyNone), r2 |-> Return(PyNone)]
    /\ issued = {}
    /\ _instance = [g \in Getters |-> 0] /\ constructed = [g \in Getters |-> 0]
    /\ returned = [g \in Getters |-> {}] /\ call = [t \in Threads |-> Idle]
    /\ request = [r \in Requests |-> NoRequest]

PropSpec == PropInit /\ [][PropNext]_vars

AISpec == AIInit /\ [][AINext]_vars

TicketSpec == TicketInit /\ [][TicketNext]_vars

DbSpec == DbInit /\ [][DbNext]_vars

StorageSpec == StorageInit /\ [][StorageNext]_vars

LocalSpec == LocalInit /\ [][LocalNext]_vars

SingletonSpec == SingletonInit /\ [][SingletonNext]_vars

SessionSpec == SessionInit /\ [][SessionNext]_vars

----------------------------------------------------------------------------
(* Claims on Ticket.requires_action (PropSpec) *)

\* What C1 takes requires_action to be: the boolean of the three-way test
requires_action_expected(row) ==
    PyBool(\/ row.status = "ESCALATED"
           \/ row.priority = "URGENT"
           \/ (row.avg_urgency_score.t = "float" /\ row.avg_urgency_score.n > 80))

\* C1: whenever requires_action is read from a ticket, the value is the boolean
\* (status == ESCALATED or priority == URGENT or avg_urgency_score > 0.8): False
\* at 0.79, at 0.80, at 0 and for an absent score, True at 0.81.
C1_RequiresActionIsTheBoolean ==
    prop = "requires_action" => ret = requires_action_expected(tk)

\* What C14 takes <<is_open, is_resolved>> to be for each status
OpenResolvedTable ==
    [OPEN |-> <<TRUE, FALSE>>, IN_PROGRESS |-> <<TRUE, FALSE>>,
     WAITING_CUSTOMER |-> <<TRUE, FALSE>>, ESCALATED |-> <<FALSE, FALSE>>,
     RESOLVED |-> <<FALSE, TRUE>>, CLOSED |-> <<FALSE, TRUE>>]

\* C14: for every status, is_open is True exactly for OPEN, IN_PROGRESS and
\* WAITING_CUSTOMER and is_resolved exactly for RESOLVED and CLOSED; the two
\* are never True together, and both are False for ESCALATED alone.
C14_OpenAndResolvedPartition ==
    /\ prop = "is_open" => ret = PyBool(OpenResolvedTable[tk.status][1])
    /\ prop = "is_resolved" => ret = PyBool(OpenResolvedTable[tk.status][2])
    /\ ~(is_open(tk).b /\ is_resolved(tk).b)
    /\ (~is_open(tk).b /\ ~is_resolved(tk).b) <=> tk.status = "ESCALATED"

C14_Witness ==
    /\ prop = "is_resolved" /\ tk.status = "ESCALATED" /\ ret = PyBool(FALSE)

----------------------------------------------------------------------------
(* Claims on AIService (AISpec) *)

\* The backend call failed: it raised, or its text cannot be parsed
BackendFailed(resp) ==
    \/ resp.kind = "raise"
    \/ resp.kind = "content" /\ resp.c \in {"none", "garbled"}

\* d[key] for a returned dict, Absent when the key is missing
Field(v, key) == IF v.t = "dict" /\ key \in DOMAIN v.d THEN v.d[key] ELSE Absent

\* C4: when the backend call of generate_solution fails, generate_solution
\* returns (it does not raise) a solution with confidence 0.1,
\* requires_escalation True and escalation_reason "AI processing error".
C4_SolutionFallbackOnFailure ==
    (ai_op = "generate_solution" /\ BackendFailed(ai_resp.backend)) =>
        /\ ~ai_ret.raised
        /\ Field(ai_ret.v, "confidence") = PyFloat(10)
        /\ Field(ai_ret.v, "requires_escalation") = PyBool(TRUE)
        /\ Field(ai_ret.v, "escalation_reason") = PyStr("AI processing error")

C4_Witness ==
    /\ ai_op = "generate_solution"
    /\ ai_resp.backend.kind = "raise"
    /\ ai_resp.args[1].t = "dict"
    /\ ~ai_ret.raised
    /\ Field(ai_ret.v, "escalation_reason") = PyStr("AI processing error")

\* The backend returned a JSON object of the shape analyze_text documents: its
\* intent, when present, is an object
WellFormedText(resp) ==
    /\ resp.kind = "content" /\ resp.c = "json"
    /\ resp.v.t = "dict"
    /\ Field(resp.v, "intent").t \in {"absent", "dict"}

\* C5: when the backend call of analyze_text fails, analyze_text returns the
\* neutral default (intent request_help with confidence 0.5, urgency_score 0.5,
\* sentiment neutral) and does not raise; when the call was made with a usable
\* context and the backend answered with a well-formed result, that result is
\* returned as it is.
C5_TextDefaultOnlyOnFailure ==
    ai_op = "analyze_text" =>
        /\ ~ai_ret.raised
        /\ BackendFailed(ai_resp.backend) =>
              /\ Field(ai_ret.v, "intent") =
                    PyDict([type |-> PyStr("request_help"), confidence |-> PyFloat(50)])
              /\ Field(ai_ret.v, "urgency_score") = PyFloat(50)
              /\ Field(Field(ai_ret.v, "emotion"), "sentiment") = PyStr("neutral")
        /\ (WellFormedText(ai_resp.backend) /\ ai_resp.args[1].t \in {"None", "dict"}) =>
              ai_ret.v = ai_resp.backend.v

C5_Witness ==
    /\ ai_op = "analyze_text"
    /\ WellFormedText(ai_resp.backend)
    /\ ai_resp.args[1].t = "dict"
    /\ Field(ai_resp.backend.v, "urgency_score") = PyFloat(90)
    /\ Field(ai_ret.v, "urgency_score") = PyFloat(90)

\* C6: no public operation of AIService raises to its caller, whether the
\* backend raises, times out, returns text that cannot be parsed or returns
\* JSON of an unexpected shape.
C6_NoOperationRaises ==
    ai_op # "" => ~ai_ret.raised

C6_Witness ==
    /\ ai_op = "classify_intent"
    /\ ai_resp.backend.kind = "content" /\ ai_resp.backend.c = "json"
    /\ ai_resp.backend.v.t = "list"
    /\ ~ai_ret.raised

\* C7: the value analyze_text, generate_solution and analyze_image return
\* holds every documented field, also when the backend's JSON omits some.
C7_EveryDocumentedFieldPresent ==
    /\ ai_op = "analyze_text" =>
          \A k \in {"intent", "entities", "emotion", "urgency_score"} :
              ~ai_ret.raised /\ Field(ai_ret.v, k) # Absent
    /\ ai_op = "generate_solution" =>
          \A k \in {"content", "steps", "confidence", "requires_escalation"} :
              ~ai_ret.raised /\ Field(ai_ret.v, k) # Absent
    /\ ai_op = "analyze_image" =>
          \A k \in {"content_type", "relevance_score"} :
              ~ai_ret.raised /\ Field(ai_ret.v, k) # Absent

\* A float of [0,1]
InUnitInterval(v) == v.t = "float" /\ 0 <= v.n /\ v.n <= 100

\* C8: the urgency_score analyze_text and calculate_urgency hand on and the
\* confidence generate_solution returns lie in [0,1].
C8_ScoresInUnitInterval ==
    /\ (ai_op = "analyze_text" /\ Field(ai_ret.v, "urgency_score") # Absent) =>
          InUnitInterval(Field(ai_ret.v, "urgency_score"))
    /\ ai_op = "calculate_urgency" => InUnitInterval(ai_ret.v)
    /\ (ai_op = "generate_solution" /\ Field(ai_ret.v, "confidence") # Absent) =>
          InUnitInterval(Field(ai_ret.v, "confidence"))

\* Whisper failed during the call: the model was not loaded and loading it
\* raised, or transcribe raised
WhisperFailed ==
    \/ ai_resp.backend.load_raises /\ ~whisper_model
    \/ ~(ai_resp.backend.load_raises /\ ~whisper_model)
          /\ ai_resp.backend.transcribe.kind = "raise"

\* C15: when the backend call fails, analyze_image returns content_type
\* "unknown", no detected text and relevance_score 0.0, and transcribe_audio
\* returns an empty transcription, confidence 0.0 and sentiment "unknown";
\* neither raises, and each result carries an error field.
C15_MediaFailureIsNotFatal ==
    /\ (ai_op = "analyze_image" /\ BackendFailed(ai_resp.backend)) =>
          /\ ~ai_ret.raised
          /\ Field(ai_ret.v, "content_type") = PyStr("unknown")
          /\ Field(ai_ret.v, "detected_text") = PyList(<<>>)
          /\ Field(ai_ret.v, "relevance_score") = PyFloat(0)
          /\ Field(ai_ret.v, "error").t = "str"
    /\ (ai_op = "transcribe_audio" /\ WhisperFailed) =>
          /\ ~ai_ret.raised
          /\ Field(ai_ret.v, "transcription") = PyStr("")
          /\ Field(ai_ret.v, "confidence") = PyFloat(0)
          /\ Field(ai_ret.v, "sentiment") = PyStr("unknown")
          /\ Field(ai_ret.v, "error").t = "str"

C15_Witness ==
    /\ ai_op = "transcribe_audio"
    /\ ai_resp.backend.load_raises /\ ~whisper_model
    /\ ~ai_ret.raised
    /\ Field(ai_ret.v, "error") = PyStr("RuntimeError")

\* C16: when the backend call of generate_context_summary fails, the call
\* does not raise and returns "Customer support case: " followed by the
\* ticket title it was given.
C16_SummaryFallbackIsTitle ==
    (/\ ai_op = "generate_context_summary"
     /\ \/ ai_resp.backend.kind = "raise"
        \/ ai_resp.backend.kind = "content" /\ ai_resp.backend.c = "none") =>
        /\ ~ai_ret.raised
        /\ ai_ret.v = PyStr("Customer support case: " \o ai_resp.args[1])

C16_Witness ==
    /\ ai_op = "generate_context_summary"
    /\ ai_resp.backend.kind = "raise" /\ ai_resp.backend.e = "APITimeoutError"
    /\ ai_resp.args[1] = "Printer offline"
    /\ ai_ret = Return(PyStr("Customer support case: Printer offline"))

\* app/config.py: Settings.max_context_turns
max_context_turns == 20

\* The last max_context_turns turns of a stored conversation, oldest first, as
\* <<speaker, message>> lines
context_window_expected(flow) ==
    LET first == IF Len(flow) > max_context_turns THEN Len(flow) - max_context_turns + 1 ELSE 1
        window == SubSeq(flow, first, Len(flow)) IN
    [n \in 1..Len(window) |-> <<window[n].d.speaker.s, window[n].d.message.s>>]

\* The call was made for a stored conversation and reached the backend
HistoryPassed ==
    /\ ai_op = "generate_solution"
    /\ Field(ai_resp.args[1], "conversation_flow") # Absent
    /\ ~generate_solution_prompt(ai_resp.args[1], ai_resp.args[2]).raised

\* C11: the conversation turns a call passes to the backend are never more
\* than max_context_turns and are exactly the last max_context_turns stored
\* turns (all of them when fewer are stored), oldest first: the last 20 of 25.
C11_ContextIsLastMaxTurns ==
    HistoryPassed =>
        /\ Len(ai_context) <= max_context_turns
        /\ ai_context = context_window_expected(Field(ai_resp.args[1], "conversation_flow").l)

----------------------------------------------------------------------------
(* Claims on the ticket and its interactions (TicketSpec) *)

\* The status state machine C2 describes, with the start of a ticket
StatusEdges ==
    {<<"", "OPEN">>, <<"OPEN", "IN_PROGRESS">>,
     <<"IN_PROGRESS", "WAITING_CUSTOMER">>, <<"IN_PROGRESS", "ESCALATED">>,
     <<"IN_PROGRESS", "RESOLVED">>, <<"WAITING_CUSTOMER", "IN_PROGRESS">>,
     <<"OPEN", "ESCALATED">>, <<"WAITING_CUSTOMER", "ESCALATED">>,
     <<"RESOLVED", "CLOSED">>, <<"ESCALATED", "CLOSED">>}

\* C2: every change of Ticket.status follows an edge of the state machine; a
\* ticket starts OPEN, CLOSED is never left and is entered only from RESOLVED
\* or ESCALATED.
C2_StatusFollowsStateMachine ==
    [][ticket'.status # ticket.status => <<ticket.status, ticket'.status>> \in StatusEdges]_vars

\* C3: a new ticket with one processed interaction of urgency 0.9 is ESCALATED,
\* requires action and has an escalation_reason; and whenever priority is
\* URGENT or avg_urgency_score exceeds auto_escalate_threshold, status is
\* ESCALATED and escalation_reason is set.
C3_UrgentTicketIsEscalated ==
    LET escalated == /\ ticket.status = "ESCALATED"
                     /\ ticket.escalation_reason # PyNone IN
    /\ (/\ Len(interactions) = 1
        /\ interactions[1].is_processed
        /\ interactions[1].urgency_score = PyFloat(90)
        /\ \A p \in Submitters : pc[p] = "idle") =>
            escalated /\ truthy(requires_action(ticket))
    /\ (\/ ticket.priority = "URGENT"
        \/ /\ ticket.avg_urgency_score.t = "float"
           /\ ticket.avg_urgency_score.n > auto_escalate_threshold) => escalated

RECURSIVE SumScores(_, _)
SumScores(rows, n) ==
    IF n = 0 THEN 0
    ELSE SumScores(rows, n - 1)
         + (IF rows[n].urgency_score.t = "float" THEN rows[n].urgency_score.n ELSE 0)

\* C9: avg_urgency_score is the arithmetic mean of the non-null urgency_score
\* values of the ticket's interactions.
C9_AvgIsMeanOfScores ==
    LET scored == {n \in 1..Len(interactions) : interactions[n].urgency_score.t = "float"} IN
    scored # {} =>
        /\ ticket.avg_urgency_score.t = "float"
        /\ ticket.avg_urgency_score.n * Cardinality(scored)
              = SumScores(interactions, Len(interactions))

\* C10: after N interactions have been submitted, in any interleaving, their
\* sequence_number values are exactly 1..N, without gap or duplicate.
C10_SequenceNumbersAre1toN ==
    /\ {interactions[n].sequence_number : n \in 1..Len(interactions)} = 1..Len(interactions)
    /\ \A m, n \in 1..Len(interactions) :
          m # n => interactions[m].sequence_number # interactions[n].sequence_number

\* A request for a status the state machine does not allow from the current
\* one: a status that is no edge away, or CLOSED for a ticket already CLOSED
InvalidTransition(status, requested) ==
    /\ requested \in TicketStatus
    /\ \/ requested # status /\ <<status, requested>> \notin StatusEdges
       \/ requested = "CLOSED" /\ status = "CLOSED"

\* A step that handles a TicketUpdate: the ticket exists and the step is no
\* submission
UpdateHandled ==
    /\ ticket # NoRow
    /\ update_req'.outcome # ""
    /\ UNCHANGED <<interactions, pc, next_seq, stVars>>

\* C13: a TicketUpdate that asks for an invalid status transition (CLOSED for
\* a CLOSED ticket, CLOSED for an OPEN one) ends in a validation error and
\* leaves every field of the ticket as it was.
C13_InvalidTransitionRejected ==
    [][(UpdateHandled /\ InvalidTransition(ticket.status, update_req'.request.status)) =>
          (ticket' = ticket /\ update_req'.outcome = "validation_error")]_vars

----------------------------------------------------------------------------
(* Claims on the tables (DbSpec) *)

\* C12: for every stored ConversationHistory turn, requires_human_review is
\* true if and only if ai_confidence is present and below 0.6: false for a
\* null confidence and for exactly 0.6.
C12_ReviewIffLowConfidence ==
    \A turn \in db.conversation_history :
        PyBool(turn.requires_human_review) = is_low_confidence(turn)

\* C18: every Interaction, ConversationHistory turn and FileAttachment names
\* a stored Ticket and every MediaFile a stored Interaction; a ticket that was
\* deleted is gone with all its interactions, turns and attachments, an
\* interaction that was deleted with its media files; and the delete of a
\* ticket is refused only when a turn names one of the ticket's interactions.
C18_CascadeLeavesNoOrphan ==
    /\ \A r \in db.interactions : r.ticket_id \in {t.id : t \in db.tickets}
    /\ \A r \in db.conversation_history : r.ticket_id \in {t.id : t \in db.tickets}
    /\ \A r \in db.file_attachments : r.ticket_id \in {t.id : t \in db.tickets}
    /\ \A r \in db.media_files : r.interaction_id \in {i.id : i \in db.interactions}
    /\ (db.last_delete.op = "delete_ticket" /\ db.last_delete.error = "") =>
          db.last_delete.id \notin {t.id : t \in db.tickets}
    /\ (db.last_delete.op = "delete_interaction" /\ db.last_delete.error = "") =>
          db.last_delete.id \notin {i.id : i \in db.interactions}
    /\ (db.last_delete.op = "delete_ticket" /\ db.last_delete.error # "") =>
          \E r \in db.conversation_history, i \in db.interactions :
              r.interaction_id = i.id /\ i.ticket_id = db.last_delete.id

C18_Witness ==
    /\ db.last_delete = [op |-> "delete_ticket", id |-> 1, error |-> ""]
    /\ db.next_id.interactions > 1 /\ db.interactions = {}
    /\ db.next_id.media_files > 1 /\ db.media_files = {}
    /\ db.next_id.conversation_history > 1 /\ db.conversation_history = {}
    /\ db.next_id.file_attachments > 1 /\ db.file_attachments = {}

----------------------------------------------------------------------------
(* Claims on the storage services (StorageSpec) *)

Services == {"local", "r2"}

\* A value a call that did not fail can return: any listing, the empty one
\* included; True or False from LocalFileService.delete_file, True from
\* R2FileService.delete_file; statistics with their total
ReturnedBySuccess(op, service, v) ==
    CASE op = "list_ticket_files" ->
            \/ v = Local_list_ticket_files([files |-> EmptyStorage, metadata |-> {}],
                                           1, "None", FALSE).v
            \/ v # {}
      [] op = "delete_file" ->
            \/ v = PyBool(TRUE)
            \/ service = "local" /\ v = PyBool(FALSE)
      [] op = "get_storage_stats" -> Field(v, "total_objects") # Absent
      [] OTHER -> TRUE

\* C17: a storage operation whose storage fails surfaces the failure: it
\* raises, or at least returns a value no successful call returns. It never
\* returns an empty list or an empty statistics record in place of the error.
C17_StorageFailureSurfaces ==
    (st_op.op \notin {"", "batch_upload"} /\ st_op.fault) =>
        \A service \in Services :
            /\ st_ret[service].raised \/ ~ReturnedBySuccess(st_op.op, service, st_ret[service].v)
            /\ st_op.op \in {"list_ticket_files", "get_storage_stats"} => st_ret[service].raised

\* C19: every key an upload returned, and no delete_file has removed since,
\* is stored with exactly the bytes uploaded, whatever other uploads and
\* deletes happened in between: download_file of the key returns those bytes,
\* and the upload returned file_size = len(bytes).
C19_UploadDownloadRoundTrip ==
    /\ \A x \in issued :
          /\ Local_download_file(disk, x.key, FALSE) = Return(x.file_data)
          /\ R2_download_file(bucket, x.key, FALSE) = Return(x.file_data)
    /\ (st_op.op = "download_file" /\ ~st_op.fault) =>
          \A x \in issued : x.key = st_op.key =>
              \A service \in Services : st_ret[service] = Return(x.file_data)
    /\ (st_op.op \in {"upload_media_file", "upload_ticket_attachment"} /\ ~st_op.fault) =>
          \A service \in Services :
              Field(st_ret[service].v, "file_size") = PyInt(Len(st_op.file_data))

\* What a caller observes of an outcome: that it raised, or the value; of an
\* upload the key, of a listing the keys
observed(op, outcome) ==
    IF outcome.raised THEN "raised"
    ELSE IF op = "list_ticket_files" THEN {x.key : x \in outcome.v}
    ELSE IF op \in {"upload_media_file", "upload_ticket_attachment"}
        THEN Field(outcome.v, "r2_key")
    ELSE outcome.v

\* C20: the same sequence of upload, download, delete and list calls gives
\* the same observable outcome on LocalFileService and on R2FileService at
\* every step, also for delete_file and download_file of a key not stored.
C20_BackendsInterchangeable ==
    st_op.op \in {"upload_media_file", "upload_ticket_attachment", "download_file",
                  "delete_file", "list_ticket_files"} =>
        observed(st_op.op, st_ret.local) = observed(st_op.op, st_ret.r2)

Uploads == {"upload_media_file", "upload_ticket_attachment"}

\* C21: every upload is stored under a key of its own: an upload that
\* returns, returns a key under which nothing is stored at the time, also
\* when the same bytes are uploaded to the same ticket within the same second;
\* so no upload overwrites a stored file.
C21_EveryUploadGetsAFreshKey ==
    [][\A service \in Services :
          (st_op'.op \in Uploads /\ ~st_ret'[service].raised) =>
              /\ st_op'.key \notin DOMAIN disk.files
              /\ st_op'.key \notin DOMAIN bucket]_vars

\* C22: on LocalFileService, get_storage_stats reports as total_objects the
\* number of files uploaded and not deleted since, and as total_size_bytes
\* the sum of their sizes; the metadata records are not counted.
C22_StatsCountTheStoredFiles ==
    (st_op.op = "get_storage_stats" /\ ~st_op.fault) =>
        /\ Field(st_ret.local.v, "total_objects") = PyInt(Cardinality(DOMAIN disk.files))
        /\ Field(st_ret.local.v, "total_size_bytes") = PyInt(total_size(disk.files))

\* C23: batch_upload returns one result per input file, in input order, each
\* with status 'success' or 'error' and the original filename of its file; a
\* failed upload does not stop the files after it; and batch_upload itself
\* never raises, whatever the entries contain.
C23_BatchUploadNeverRaises ==
    st_op.op = "batch_upload" =>
        \A service \in Services :
            /\ ~st_ret[service].raised
            /\ st_ret[service].v.t = "list"
            /\ Len(st_ret[service].v.l) = Len(st_op.files)
            /\ \A i \in 1..Len(st_op.files) :
                  LET result == st_ret[service].v.l[i] IN
                  /\ Field(result, "status") \in {PyStr("success"), PyStr("error")}
                  /\ "filename" \in DOMAIN st_op.files[i] =>
                        Field(result, "original_filename") = PyStr(st_op.files[i].filename)

----------------------------------------------------------------------------
(* Claims on the service getters (SingletonSpec) *)

\* C24: each getter constructs its service at most once, and every call,
\* also first calls made at the same time from several threads, returns the
\* same instance.
C24_GettersAreSingletons ==
    \A g \in Getters :
        /\ constructed[g] <= 1
        /\ Cardinality(returned[g]) <= 1

----------------------------------------------------------------------------
(* Claims on LocalFileService (LocalSpec) *)

FileTypes == {"None", "interactions", "attachments"}

\* The keys list_ticket_files gives for a ticket
listed(d, ticket_id, file_type) ==
    {x.key : x \in Local_list_ticket_files(d, ticket_id, file_type, FALSE).v}

C26_SizeLimitIsTheCallers ==
    st_op.op = "validate_file_size" =>
        LET L == IF st_op.max_size_mb = PyNone THEN max_file_size_mb
                 ELSE st_op.max_size_mb.i IN
        st_ret.local = Return(PyBool(st_op.file_size <= L * 1024 * 1024))

\* C29: an upload to LocalFileService that raises leaves the storage as it
\* was: no file and no metadata record for the attempted key have appeared,
\* and list_ticket_files and get_storage_stats return what they returned
\* before the call.
C29_FailedUploadLeavesNoTrace ==
    [][(st_op'.op \in {"upload_media_file", "upload_ticket_attachment"}
        /\ st_ret'.local.raised) =>
          /\ DOMAIN disk'.files = DOMAIN disk.files
          /\ disk'.metadata = disk.metadata
          /\ \A t \in StorageTicketIds, file_type \in FileTypes :
                Local_list_ticket_files(disk', t, file_type, FALSE)
                    = Local_list_ticket_files(disk, t, file_type, FALSE)
          /\ Local_get_storage_stats(disk', FALSE) = Local_get_storage_stats(disk, FALSE)]_vars

----------------------------------------------------------------------------
(* Claims on the context summary (AISpec) *)

\* C27: generate_context_summary puts in its prompt the last 5 interactions
\* of the list it is given, the 5 most recent ones of a list in
\* sequence_number order, and all of them when the list has 5 or fewer.
C27_SummaryUsesLastFive ==
    (/\ ai_op = "generate_context_summary"
     /\ ~interaction_texts(ai_resp.args[2]).raised) =>
        ai_context = [n \in 1..Len(last5(ai_resp.args[2])) |->
                         last5(ai_resp.args[2])[n].processed_content]

----------------------------------------------------------------------------
(* Claims on get_db (SessionSpec) *)

Count(session, what) == Cardinality({i \in DOMAIN session : session[i] = what})

----------------------------------------------------------------------------
(* Claims on the files of different tickets (StorageSpec) *)

\* The keys each service lists for a ticket
listed_by(service, ticket_id, file_type) ==
    IF service = "local" THEN listed(disk, ticket_id, file_type)
    ELSE {x.key : x \in R2_list_ticket_files(bucket, ticket_id, file_type, FALSE).v}

\* The keys stored for a ticket: uploaded for it and not deleted since
stored_for(service, ticket_id, file_type) ==
    {k \in DOMAIN (IF service = "local" THEN disk.files ELSE bucket) :
        /\ k.ticket_id = ticket_id
        /\ file_type \in {"None", k.folder}}

\* The ticket a call is about (0: none)
ticket_of(op) ==
    IF "key" \in DOMAIN op THEN op.key.ticket_id
    ELSE IF "ticket_id" \in DOMAIN op THEN op.ticket_id ELSE 0

====
